---- MODULE Spec2Model ----
(***************************************************************************)
(* Model of the reporter agent (cmd/reporter-agent/main.go): the registry  *)
(* of per-scan aggregators, the scan.result and service.detected handlers, *)
(* the per-aggregator timeout callback, the shutdown loop of Start and the *)
(* report synthesis of generateReport; and of the scanner agent            *)
(* (cmd/scanner-agent): handleScanRequest, the worker pool of scanPorts,   *)
(* scanPort and publishResult.                                             *)
(*                                                                         *)
(* Goroutines: the NATS client runs the callbacks of one subscription one  *)
(* at a time, so there is one scan.result handler and one service.detected *)
(* handler; every timer callback runs on a goroutine of its own; Start     *)
(* runs on the main goroutine.  A critical section of ra.mutex or of an    *)
(* aggregator's mutex that is entered and left inside one function is one  *)
(* step.  The shutdown loop keeps ra.mutex over several generateReport     *)
(* calls, so it is several steps and phase = "looping" means ra.mutex is   *)
(* held by Start.  scanPorts runs one goroutine per list entry, one that   *)
(* closes the results channel, and the publishing loop on the handler's    *)
(* goroutine; a channel operation is one step.                             *)
(*                                                                         *)
(* The mutexes of the reporter are followed a second time with one step    *)
(* per Lock and Unlock (variables lk...), for the order in which they are  *)
(* taken.  The fingerprinting engine (variables fp...) follows section 4.2 *)
(* of the specification: its code is not among the sources.  The intake    *)
(* agent's handleScan (variables in..., scans, scanRequests, responses)    *)
(* is one goroutine per HTTP request, one step per database or NATS call.  *)
(***************************************************************************)
EXTENDS Integers, Sequences, FiniteSets, Bags, TLC

\* ---------------------------------------------------------------- bounds
\* ports named by the scan request "s1": one scan.result message each
MaxResultsA == 21
\* service.detected messages delivered in a run, and the longest list of
\* service records the report specification starts from
MaxServices == 2
\* aggregators allocated in a run
MaxAggs == 2
\* longest list of accumulated results the report specification starts from
MaxLen == 3

\* scan.result messages delivered in a run of the lock-level specification
MaxMessages == 1

\* HTTP requests that reach the intake agent in a run, each on its goroutine
MaxClients == 2

\* distinct entries of the longest port list a scan request names (the list of
\* maxWorkers + 1 entries apart)
MaxPorts == 2
\* publishResult calls of a scan that nc.Publish may refuse
MaxPublishFailures == 1

\* ------------------------------------------------------------- constants
\* const maxResultsWait = 20
maxResultsWait == 20

ScanIds == {"s1", "s2"}

\* The request "s1" names the ports 1..MaxResultsA, the request "s2" the port 1.
RequestedPorts(s) == IF s = "s1" THEN 1..MaxResultsA ELSE {1}

\* The scanner probes the ports of a request one after the other; the k-th
\* result published for a scan carries port k.  The target answers on the
\* ports 1, 4, 7, ..., refuses on 2, 5, 8, ... and drops 3, 6, 9, ...
PortState(p) ==
    IF p % 3 = 1 THEN "open" ELSE IF p % 3 = 2 THEN "closed" ELSE "filtered"

ServiceNames == {"SSH", "HTTP"}

\* The analyzer recognises the version of SSH from its banner and none for HTTP
\* (version is omitempty).
ServiceVersion(name) == IF name = "SSH" THEN "8.9" ELSE ""

\* nil pointer / absent map entry
NoAgg == 0

VARIABLES
    scanAggregators,  \* ra.scanAggregators: scan id -> aggregator pointer (NoAgg: absent)
    aggs,             \* the heap of ScanAggregator objects; a pointer is an index
    phase,            \* Start: "running", "looping" (ra.mutex held), "returned", "exited"
    todo,             \* scan ids the range loop of Start has still to visit
    hPc, hMsg, hAgg,  \* handleScanResult: position, decoded result, local aggregator / agg
    sPc, sMsg, sAgg,  \* handleServiceDetected: position, decoded record, local aggregator
    sent,             \* scan id -> number of scan.result messages delivered so far
    svcSent,          \* number of service.detected messages delivered so far
    dropped,          \* topic -> how many well-formed messages of the topic had been
                      \* taken when a payload of it failed to decode (NoDrop: none did)
    dbFaulty,         \* whether the database may refuse a statement in this run
    reports,          \* every generateReport call, in order, with what it built
    scanStatus,       \* scans.status per scan id
    \* the scanner agent
    request,          \* the ScanRequest published on scan.request in this run
    pending,          \* the request has not been delivered yet
    qPc,              \* handleScanRequest / scanPorts: "idle", "spawn", "range"
    ports,            \* scanPorts: the port list it was called with
    spawned,          \* scanPorts: iterations of the for loop done
    workers,          \* the goroutines of the loop that have not returned: a bag of
                      \* [port, pc], pc "start", "probing" (in scanPort) or "sent"
    sem,              \* len(sem): slots taken
    wg,               \* the WaitGroup counter
    resultsCh,        \* the buffer of the results channel
    closed,           \* close(results) has run
    closer,           \* the goroutine of wg.Wait(); close(results): "none", "waiting", "done"
    sendLog,          \* every result sent on the channel, in the order of the sends
    published,        \* every publishResult call, in order: the message and whether
                      \* nc.Publish took it
    completed,        \* "Completed port scan" has been logged
    \* the reporter's mutexes, one step per Lock / Unlock
    lkPc,             \* goroutine -> where it is between its Lock and Unlock calls
    lkReg,            \* the goroutine that holds ra.mutex for writing (NoOne: free)
    lkReaders,        \* the goroutines that hold ra.mutex for reading
    lkAgg,            \* aggregator -> the goroutine that holds its mutex (NoOne: free)
    lkPtr,            \* goroutine -> the aggregator its local variable points to
    lkMap,            \* the aggregator registered under the scan id (NoAgg: none)
    lkMade,           \* aggregators created so far
    lkTodo,           \* entries the range loop of Start has still to visit
    lkMsgs,           \* scan.result messages delivered so far
    lkSvcs,           \* service.detected messages delivered so far
    \* the fingerprinting engine
    fpScan,           \* the PortResults of this run: <<scan id, port>> -> state
    fpInbox,          \* the PortResults not delivered to the engine yet
    fpTasks,          \* the fingerprint tasks in flight
    fpRecords,        \* the ServiceRecords emitted, in order
    fpPhase,          \* "running", "draining" (shutdown, grace period), "stopped"
    \* the intake agent (main agent): one goroutine per HTTP request
    inPc,             \* client -> where its handleScan call is
    inReq,            \* client -> the decoded ScanRequest of its POST /scan
    inId,             \* client -> the scan id generated for it (NoId: none yet)
    inTx,             \* client -> its open transaction holds the inserted row
    scans,            \* the committed rows of the table scans: scan id -> status
    scanRequests,     \* the messages published on scan.request, in order
    responses,        \* client -> the HTTP response it got (NoResponse: none yet)
    nextId            \* scan ids generated so far

reporterVars == <<scanAggregators, aggs, phase, todo, hPc, hMsg, hAgg, sPc, sMsg, sAgg,
                  sent, svcSent, dbFaulty, reports, scanStatus>>

scannerVars == <<request, pending, qPc, ports, spawned, workers, sem, wg, resultsCh,
                 closed, closer, sendLog, published, completed>>

lockVars == <<lkPc, lkReg, lkReaders, lkAgg, lkPtr, lkMap, lkMade, lkTodo, lkMsgs, lkSvcs>>

analyzerVars == <<fpScan, fpInbox, fpTasks, fpRecords, fpPhase>>

intakeVars == <<inPc, inReq, inId, inTx, scans, scanRequests, responses, nextId>>

vars == <<reporterVars, dropped, scannerVars, lockVars, analyzerVars, intakeVars>>

\* the subjects the agents subscribe to
Topics == {"scan.result", "service.detected", "scan.request"}
NoDrop == -1

NoMsg == [scanID |-> "", port |-> 0, state |-> ""]
NoSvc == [scanID |-> "", port |-> 0, serviceName |-> "", version |-> ""]

\* ------------------------------------------------------------ generateReport
\* ServiceMap in which a port keeps the first record seen for it
RECURSIVE ServiceMapFirstWins(_)
ServiceMapFirstWins(services) ==
    IF services = <<>> THEN <<>>
    ELSE LET n    == Len(services)
             rest == ServiceMapFirstWins(SubSeq(services, 1, n - 1))
         IN  rest @@ (services[n].port :> services[n])

\* for _, service := range aggregator.services { serviceMap[service.Port] = service }
RECURSIVE ServiceMap(_)
ServiceMap(services) ==
    IF services = <<>> THEN <<>>
    ELSE LET n    == Len(services)
             rest == ServiceMap(SubSeq(services, 1, n - 1))
         IN  (services[n].port :> services[n]) @@ rest

OpenPortInfo(result, serviceMap) ==
    IF result.port \in DOMAIN serviceMap
    THEN [port |-> result.port,
          service |-> serviceMap[result.port].serviceName,
          version |-> serviceMap[result.port].version]
    ELSE [port |-> result.port, service |-> "", version |-> ""]

\* CountResults with the open port appended only when a service record is known
RECURSIVE CountResultsKnownOnly(_, _)
CountResultsKnownOnly(results, serviceMap) ==
    IF results = <<>> THEN [openCount |-> 0, closedCount |-> 0, openPorts |-> <<>>]
    ELSE LET n == Len(results)
             r == results[n]
             c == CountResultsKnownOnly(SubSeq(results, 1, n - 1), serviceMap)
         IN  IF r.state = "open"
             THEN [c EXCEPT !.openCount = @ + 1,
                            !.openPorts = IF r.port \in DOMAIN serviceMap
                                          THEN Append(@, OpenPortInfo(r, serviceMap))
                                          ELSE @]
             ELSE IF r.state = "closed"
             THEN [c EXCEPT !.closedCount = @ + 1]
             ELSE c

\* CountResults with the closed counter fed by the filtered results
RECURSIVE CountResultsFiltered(_, _)
CountResultsFiltered(results, serviceMap) ==
    IF results = <<>> THEN [openCount |-> 0, closedCount |-> 0, openPorts |-> <<>>]
    ELSE LET n == Len(results)
             r == results[n]
             c == CountResultsFiltered(SubSeq(results, 1, n - 1), serviceMap)
         IN  IF r.state = "open"
             THEN [c EXCEPT !.openCount = @ + 1,
                            !.openPorts = Append(@, OpenPortInfo(r, serviceMap))]
             ELSE IF r.state = "filtered"
             THEN [c EXCEPT !.closedCount = @ + 1]
             ELSE c

\* for _, result := range aggregator.results { ... } : the counters and the list
\* after the first n iterations
RECURSIVE CountFirst(_, _, _)
CountFirst(results, serviceMap, n) ==
    IF n = 0 THEN [openCount |-> 0, closedCount |-> 0, openPorts |-> <<>>]
    ELSE LET r == results[n]
             c == CountFirst(results, serviceMap, n - 1)
         IN  IF r.state = "open"
             THEN [c EXCEPT !.openCount = @ + 1,
                            !.openPorts = Append(@, OpenPortInfo(r, serviceMap))]
             ELSE IF r.state = "closed"
             THEN [c EXCEPT !.closedCount = @ + 1]
             ELSE c

\* the loop run to its end
CountResults(results, serviceMap) == CountFirst(results, serviceMap, Len(results))

\* BuildReport with TotalPorts taken from the two counters
BuildReportCounted(agg) ==
    LET c == CountResults(agg.results, ServiceMap(agg.services))
    IN  [scanID    |-> agg.scanID,
         openPorts |-> c.openPorts,
         total     |-> c.openCount + c.closedCount,
         open      |-> c.openCount,
         closed    |-> c.closedCount]

\* report := Report{...}
BuildReport(agg) ==
    LET c == CountResults(agg.results, ServiceMap(agg.services))
    IN  [scanID    |-> agg.scanID,
         openPorts |-> c.openPorts,
         total     |-> Len(agg.results),
         open      |-> c.openCount,
         closed    |-> c.closedCount]

\* how generateReport ends after the report is built: json.Marshal fails,
\* saveReport fails, updateScanStatus fails, or every step succeeds
DbOutcomes ==
    IF dbFaulty THEN {"ok", "marshal_failed", "save_failed", "status_failed"}
    ELSE {"ok"}

\* the outcomes in which saveReport has stored the report
Saved(db) == db \notin {"marshal_failed", "save_failed"}

\* GenerateReport that calls updateScanStatus before saveReport
GenerateReportStatusFirst(a, path, db) ==
    /\ reports' = Append(reports,
                         [agg |-> a, path |-> path, report |-> BuildReport(aggs[a]),
                          results |-> aggs[a].results, services |-> aggs[a].services,
                          count |-> aggs[a].resultCount,
                          saved |-> Saved(db)])
    /\ scanStatus' = IF db \in {"ok", "save_failed"}
                     THEN [scanStatus EXCEPT ![aggs[a].scanID] = "completed"]
                     ELSE scanStatus

\* GenerateReport that goes on to updateScanStatus after a failed saveReport
GenerateReportNoReturn(a, path, db) ==
    /\ reports' = Append(reports,
                         [agg |-> a, path |-> path, report |-> BuildReport(aggs[a]),
                          results |-> aggs[a].results, services |-> aggs[a].services,
                          count |-> aggs[a].resultCount,
                          saved |-> Saved(db)])
    /\ scanStatus' = IF db \notin {"marshal_failed", "status_failed"}
                     THEN [scanStatus EXCEPT ![aggs[a].scanID] = "completed"]
                     ELSE scanStatus

\* generateReport(aggregator), called on `path`; db is what the database answers.
\* The whole function runs under aggregator.mutex.
GenerateReport(a, path, db) ==
    /\ reports' = Append(reports,
                         [agg |-> a, path |-> path, report |-> BuildReport(aggs[a]),
                          results |-> aggs[a].results, services |-> aggs[a].services,
                          count |-> aggs[a].resultCount,
                          saved |-> Saved(db)])
    /\ scanStatus' = IF db = "ok"
                     THEN [scanStatus EXCEPT ![aggs[a].scanID] = "completed"]
                     ELSE scanStatus

\* timer.Stop(): a timer that has not fired yet never fires; one whose callback
\* has started is not affected.
StopTimer(heap, a) ==
    IF heap[a].timer = "armed" THEN [heap EXCEPT ![a].timer = "stopped"] ELSE heap

\* ------------------------------------------------------------------ Init
NoRequest == [id |-> "", target |-> "", ports |-> <<>>]

\* the scanner agent before any scan.request message
ScannerIdle ==
    /\ qPc = "idle"
    /\ ports = <<>> /\ spawned = 0
    /\ workers = EmptyBag /\ sem = 0 /\ wg = 0
    /\ resultsCh = <<>> /\ closed = FALSE /\ closer = "none"
    /\ sendLog = <<>> /\ published = <<>> /\ completed = FALSE

\* no scan is requested of the scanner in this run
ScannerOff == request = NoRequest /\ pending = FALSE /\ ScannerIdle

\* no goroutine, as a lock holder
NoOne == <<"", 0>>

\* the lock-level view of the reporter is not followed in this run
LocksOff ==
    /\ lkPc = <<>> /\ lkReg = NoOne /\ lkReaders = {} /\ lkAgg = <<>>
    /\ lkPtr = <<>> /\ lkMap = NoAgg /\ lkMade = 0 /\ lkTodo = {}
    /\ lkMsgs = 0 /\ lkSvcs = 0

\* no POST /scan reaches the intake agent in this run
IntakeOff ==
    /\ inPc = <<>> /\ inReq = <<>> /\ inId = <<>> /\ inTx = <<>>
    /\ scans = <<>> /\ scanRequests = <<>> /\ responses = <<>> /\ nextId = 0

\* no fingerprinting engine in this run
AnalyzerOff ==
    /\ fpScan = <<>> /\ fpInbox = {} /\ fpTasks = {} /\ fpRecords = <<>>
    /\ fpPhase = "stopped"

Init ==
    /\ scanAggregators = [s \in ScanIds |-> NoAgg]
    /\ aggs = <<>>
    /\ phase = "running"
    /\ todo = {}
    /\ hPc = "idle" /\ hMsg = NoMsg /\ hAgg = NoAgg
    /\ sPc = "idle" /\ sMsg = NoSvc /\ sAgg = NoAgg
    /\ sent = [s \in ScanIds |-> 0]
    /\ svcSent = 0
    /\ dropped = [t \in Topics |-> NoDrop]
    /\ LocksOff /\ AnalyzerOff /\ IntakeOff
    /\ ScannerOff
    /\ dbFaulty = FALSE
    /\ reports = <<>>
    /\ scanStatus = [s \in ScanIds |-> "pending"]

Alive == phase # "exited"

\* scan.result messages delivered so far
Delivered == sent["s1"] + sent["s2"]
\* ra.mutex can be taken (only Start keeps it across steps)
RegistryFree == phase # "looping"

\* --------------------------------------------------------- handleScanResult
\* A scan.result message is delivered and decodes.
ResultReceive(s) ==
    /\ phase = "running" /\ hPc = "idle"
    /\ sent[s] + 1 \in RequestedPorts(s)
    /\ sent' = [sent EXCEPT ![s] = @ + 1]
    /\ hMsg' = [scanID |-> s, port |-> sent[s] + 1, state |-> PortState(sent[s] + 1)]
    /\ hPc' = "lookup"
    /\ UNCHANGED <<scanAggregators, aggs, phase, todo, hAgg, sPc, sMsg, sAgg,
                   svcSent, dropped, reports, scanStatus, dbFaulty,
                   scannerVars, lockVars, analyzerVars, intakeVars>>

\* json.Unmarshal fails: logged, return.
ResultMalformed ==
    /\ phase = "running" /\ hPc = "idle"
    /\ dropped["scan.result"] = NoDrop
    /\ dropped' = [dropped EXCEPT !["scan.result"] = Delivered]
    /\ UNCHANGED <<scanAggregators, aggs, phase, todo, hPc, hMsg, hAgg, sPc, sMsg,
                   sAgg, sent, svcSent, reports, scanStatus, dbFaulty,
                   scannerVars, lockVars, analyzerVars, intakeVars>>

NewAggregator(s) ==
    [scanID |-> s, results |-> <<>>, services |-> <<>>, resultCount |-> 0,
     timer |-> "armed", cbAgg |-> NoAgg]

\* ra.mutex.Lock(); look the aggregator up, create it and arm its timer when
\* absent; ra.mutex.Unlock()
ResultLookup ==
    /\ Alive /\ RegistryFree /\ hPc = "lookup"
    /\ IF scanAggregators[hMsg.scanID] # NoAgg
       THEN /\ hAgg' = scanAggregators[hMsg.scanID]
            /\ UNCHANGED <<scanAggregators, aggs>>
       ELSE /\ Len(aggs) < MaxAggs
            /\ aggs' = Append(aggs, NewAggregator(hMsg.scanID))
            /\ hAgg' = Len(aggs) + 1
            /\ scanAggregators' = [scanAggregators EXCEPT ![hMsg.scanID] = Len(aggs) + 1]
    /\ hPc' = "append"
    /\ UNCHANGED <<phase, todo, hMsg, sPc, sMsg, sAgg, sent, svcSent, dropped,
                   reports, scanStatus, dbFaulty,
                   scannerVars, lockVars, analyzerVars, intakeVars>>

\* ResultAppend with the test count > maxResultsWait
ResultAppendOffByOne ==
    /\ Alive /\ hPc = "append"
    /\ aggs' = [aggs EXCEPT ![hAgg].results = Append(@, hMsg),
                            ![hAgg].resultCount = @ + 1]
    /\ IF aggs[hAgg].resultCount + 1 > maxResultsWait
       THEN hPc' = "check" /\ UNCHANGED <<hMsg, hAgg>>
       ELSE hPc' = "idle" /\ hMsg' = NoMsg /\ hAgg' = NoAgg
    /\ UNCHANGED <<scanAggregators, phase, todo, sPc, sMsg, sAgg, sent, svcSent,
                   dropped, reports, scanStatus, dbFaulty,
                   scannerVars, lockVars, analyzerVars, intakeVars>>

\* aggregator.mutex.Lock(); append; resultCount++; count := resultCount; Unlock();
\* then the test count >= maxResultsWait
ResultAppend ==
    /\ Alive /\ hPc = "append"
    /\ aggs' = [aggs EXCEPT ![hAgg].results = Append(@, hMsg),
                            ![hAgg].resultCount = @ + 1]
    /\ IF aggs[hAgg].resultCount + 1 >= maxResultsWait
       THEN hPc' = "check" /\ UNCHANGED <<hMsg, hAgg>>
       ELSE hPc' = "idle" /\ hMsg' = NoMsg /\ hAgg' = NoAgg
    /\ UNCHANGED <<scanAggregators, phase, todo, sPc, sMsg, sAgg, sent, svcSent,
                   dropped, reports, scanStatus, dbFaulty,
                   scannerVars, lockVars, analyzerVars, intakeVars>>

\* ResultCheck with the delete left to a later critical section
ResultCheckNoDelete ==
    /\ Alive /\ RegistryFree /\ hPc = "check"
    /\ IF scanAggregators[hMsg.scanID] # NoAgg
       THEN /\ aggs' = StopTimer(aggs, scanAggregators[hMsg.scanID])
            /\ hAgg' = scanAggregators[hMsg.scanID]
            /\ hPc' = "report"
            /\ UNCHANGED <<hMsg, scanAggregators>>
       ELSE /\ hPc' = "idle" /\ hMsg' = NoMsg /\ hAgg' = NoAgg
            /\ UNCHANGED <<scanAggregators, aggs>>
    /\ UNCHANGED <<phase, todo, sPc, sMsg, sAgg, sent, svcSent, dropped, reports,
                   scanStatus, dbFaulty,
                   scannerVars, lockVars, analyzerVars, intakeVars>>

\* ra.mutex.Lock(); if agg, ok := ra.scanAggregators[id]; ok { agg.timer.Stop();
\* delete(...) }; ra.mutex.Unlock()
ResultCheck ==
    /\ Alive /\ RegistryFree /\ hPc = "check"
    /\ IF scanAggregators[hMsg.scanID] # NoAgg
       THEN /\ aggs' = StopTimer(aggs, scanAggregators[hMsg.scanID])
            /\ scanAggregators' = [scanAggregators EXCEPT ![hMsg.scanID] = NoAgg]
            /\ hAgg' = scanAggregators[hMsg.scanID]
            /\ hPc' = "report"
            /\ UNCHANGED hMsg
       ELSE /\ hPc' = "idle" /\ hMsg' = NoMsg /\ hAgg' = NoAgg
            /\ UNCHANGED <<scanAggregators, aggs>>
    /\ UNCHANGED <<phase, todo, sPc, sMsg, sAgg, sent, svcSent, dropped, reports,
                   scanStatus, dbFaulty,
                   scannerVars, lockVars, analyzerVars, intakeVars>>

\* ra.generateReport(agg) of the threshold path
ResultReport ==
    /\ Alive /\ hPc = "report"
    /\ \E db \in DbOutcomes : GenerateReport(hAgg, "threshold", db)
    /\ hPc' = "idle" /\ hMsg' = NoMsg /\ hAgg' = NoAgg
    /\ UNCHANGED <<scanAggregators, aggs, phase, todo, sPc, sMsg, sAgg, sent,
                   svcSent, dropped, dbFaulty,
                   scannerVars, lockVars, analyzerVars, intakeVars>>

\* ---------------------------------------------------- handleServiceDetected
\* json.Unmarshal fails: logged, return.
ServiceMalformed ==
    /\ phase = "running" /\ sPc = "idle"
    /\ dropped["service.detected"] = NoDrop
    /\ dropped' = [dropped EXCEPT !["service.detected"] = svcSent]
    /\ UNCHANGED <<reporterVars, scannerVars, lockVars, analyzerVars, intakeVars>>

ServiceReceive(s, name) ==
    /\ phase = "running" /\ sPc = "idle"
    /\ svcSent < MaxServices
    /\ svcSent' = svcSent + 1
    /\ sMsg' = [scanID |-> s, port |-> 1, serviceName |-> name,
                version |-> ServiceVersion(name)]
    /\ sPc' = "lookup"
    /\ UNCHANGED <<scanAggregators, aggs, phase, todo, hPc, hMsg, hAgg, sAgg, sent,
                   dropped, reports, scanStatus, dbFaulty,
                   scannerVars, lockVars, analyzerVars, intakeVars>>

\* ServiceLookup that registers an aggregator when the scan id has none
ServiceLookupCreates ==
    /\ Alive /\ RegistryFree /\ sPc = "lookup"
    /\ IF scanAggregators[sMsg.scanID] # NoAgg
       THEN /\ sAgg' = scanAggregators[sMsg.scanID]
            /\ UNCHANGED <<scanAggregators, aggs>>
       ELSE /\ Len(aggs) < MaxAggs
            /\ aggs' = Append(aggs, NewAggregator(sMsg.scanID))
            /\ sAgg' = Len(aggs) + 1
            /\ scanAggregators' = [scanAggregators EXCEPT ![sMsg.scanID] = Len(aggs) + 1]
    /\ sPc' = "append"
    /\ UNCHANGED <<phase, todo, hPc, hMsg, hAgg, sMsg, sent,
                   svcSent, dropped, reports, scanStatus, dbFaulty,
                   scannerVars, lockVars, analyzerVars, intakeVars>>

\* ServiceLookup that takes any registered aggregator, whatever its scan id
ServiceLookupAny ==
    /\ Alive /\ RegistryFree /\ sPc = "lookup"
    /\ IF \E s \in ScanIds : scanAggregators[s] # NoAgg
       THEN /\ \E s \in ScanIds : scanAggregators[s] # NoAgg /\ sAgg' = scanAggregators[s]
            /\ sPc' = "append" /\ UNCHANGED sMsg
       ELSE sAgg' = NoAgg /\ sPc' = "idle" /\ sMsg' = NoSvc
    /\ UNCHANGED <<scanAggregators, aggs, phase, todo, hPc, hMsg, hAgg, sent,
                   svcSent, dropped, reports, scanStatus, dbFaulty,
                   scannerVars, lockVars, analyzerVars, intakeVars>>

\* ra.mutex.RLock(); aggregator, exists := ...; ra.mutex.RUnlock()
ServiceLookup ==
    /\ Alive /\ RegistryFree /\ sPc = "lookup"
    /\ IF scanAggregators[sMsg.scanID] # NoAgg
       THEN sAgg' = scanAggregators[sMsg.scanID] /\ sPc' = "append" /\ UNCHANGED sMsg
       ELSE sAgg' = NoAgg /\ sPc' = "idle" /\ sMsg' = NoSvc
    /\ UNCHANGED <<scanAggregators, aggs, phase, todo, hPc, hMsg, hAgg, sent,
                   svcSent, dropped, reports, scanStatus, dbFaulty,
                   scannerVars, lockVars, analyzerVars, intakeVars>>

\* aggregator.services = append(aggregator.services, service)
ServiceAppend ==
    /\ Alive /\ sPc = "append"
    /\ aggs' = [aggs EXCEPT ![sAgg].services = Append(@, sMsg)]
    /\ sPc' = "idle" /\ sMsg' = NoSvc /\ sAgg' = NoAgg
    /\ UNCHANGED <<scanAggregators, phase, todo, hPc, hMsg, hAgg, sent, svcSent,
                   dropped, reports, scanStatus, dbFaulty,
                   scannerVars, lockVars, analyzerVars, intakeVars>>

\* ------------------------------------------------------ the timer callback
\* resultTimeout elapses: the runtime starts the callback on its own goroutine.
TimerFire(a) ==
    /\ Alive /\ a \in DOMAIN aggs
    /\ aggs[a].timer = "armed"
    /\ aggs' = [aggs EXCEPT ![a].timer = "fired"]
    /\ UNCHANGED <<scanAggregators, phase, todo, hPc, hMsg, hAgg, sPc, sMsg, sAgg,
                   sent, svcSent, dropped, dbFaulty, reports, scanStatus,
                   scannerVars, lockVars, analyzerVars, intakeVars>>

\* TimerCheck that finds the aggregator and leaves it in the registry
TimerCheckLookOnly(a) ==
    /\ Alive /\ RegistryFree /\ a \in DOMAIN aggs
    /\ aggs[a].timer = "fired"
    /\ IF scanAggregators[aggs[a].scanID] # NoAgg
       THEN aggs' = [aggs EXCEPT ![a].timer = "claimed",
                                 ![a].cbAgg = scanAggregators[aggs[a].scanID]]
       ELSE aggs' = [aggs EXCEPT ![a].timer = "done"]
    /\ UNCHANGED <<scanAggregators, phase, todo, hPc, hMsg, hAgg, sPc, sMsg, sAgg, sent,
                   svcSent, dropped, reports, scanStatus, dbFaulty,
                   scannerVars, lockVars, analyzerVars, intakeVars>>

\* ra.mutex.Lock(); if agg, ok := ra.scanAggregators[result.ScanID]; ok
\* { delete(...) }; ra.mutex.Unlock().  The closure holds the scan id, not the
\* aggregator.
TimerCheck(a) ==
    /\ Alive /\ RegistryFree /\ a \in DOMAIN aggs
    /\ aggs[a].timer = "fired"
    /\ IF scanAggregators[aggs[a].scanID] # NoAgg
       THEN /\ aggs' = [aggs EXCEPT ![a].timer = "claimed",
                                    ![a].cbAgg = scanAggregators[aggs[a].scanID]]
            /\ scanAggregators' = [scanAggregators EXCEPT ![aggs[a].scanID] = NoAgg]
       ELSE /\ aggs' = [aggs EXCEPT ![a].timer = "done"]
            /\ UNCHANGED scanAggregators
    /\ UNCHANGED <<phase, todo, hPc, hMsg, hAgg, sPc, sMsg, sAgg, sent, svcSent,
                   dropped, reports, scanStatus, dbFaulty,
                   scannerVars, lockVars, analyzerVars, intakeVars>>

\* ra.generateReport(agg) of the timer path
TimerReport(a) ==
    /\ Alive /\ a \in DOMAIN aggs
    /\ aggs[a].timer = "claimed"
    /\ \E db \in DbOutcomes : GenerateReport(aggs[a].cbAgg, "timer", db)
    /\ aggs' = [aggs EXCEPT ![a].timer = "done", ![a].cbAgg = NoAgg]
    /\ UNCHANGED <<scanAggregators, phase, todo, hPc, hMsg, hAgg, sPc, sMsg, sAgg,
                   sent, svcSent, dropped, dbFaulty,
                   scannerVars, lockVars, analyzerVars, intakeVars>>

\* -------------------------------------------------------------------- Start
\* <-ctx.Done(); Unsubscribe both; ra.mutex.Lock(); the range loop starts
ShutdownLock ==
    /\ phase = "running"
    /\ phase' = "looping"
    /\ todo' = {s \in ScanIds : scanAggregators[s] # NoAgg}
    /\ UNCHANGED <<scanAggregators, aggs, hPc, hMsg, hAgg, sPc, sMsg, sAgg, sent,
                   svcSent, dropped, reports, scanStatus, dbFaulty,
                   scannerVars, lockVars, analyzerVars, intakeVars>>

\* ShutdownIter that only stops the timer
ShutdownIterStopOnly(s) ==
    /\ phase = "looping" /\ s \in todo
    /\ aggs' = StopTimer(aggs, scanAggregators[s])
    /\ todo' = todo \ {s}
    /\ UNCHANGED <<scanAggregators, phase, hPc, hMsg, hAgg, sPc, sMsg, sAgg, sent,
                   svcSent, dropped, dbFaulty, reports, scanStatus,
                   scannerVars, lockVars, analyzerVars, intakeVars>>

\* one iteration: aggregator.timer.Stop(); ra.generateReport(aggregator)
ShutdownIter(s) ==
    /\ phase = "looping" /\ s \in todo
    /\ aggs' = StopTimer(aggs, scanAggregators[s])
    /\ \E db \in DbOutcomes : GenerateReport(scanAggregators[s], "shutdown", db)
    /\ todo' = todo \ {s}
    /\ UNCHANGED <<scanAggregators, phase, hPc, hMsg, hAgg, sPc, sMsg, sAgg, sent,
                   svcSent, dropped, dbFaulty,
                   scannerVars, lockVars, analyzerVars, intakeVars>>

\* ra.mutex.Unlock(); return nil
ShutdownUnlock ==
    /\ phase = "looping" /\ todo = {}
    /\ phase' = "returned"
    /\ UNCHANGED <<scanAggregators, aggs, todo, hPc, hMsg, hAgg, sPc, sMsg, sAgg,
                   sent, svcSent, dropped, dbFaulty, reports, scanStatus,
                   scannerVars, lockVars, analyzerVars, intakeVars>>

\* main returns: the process ends and with it every goroutine still running
ProcessExit ==
    /\ phase = "returned"
    /\ phase' = "exited"
    /\ UNCHANGED <<scanAggregators, aggs, todo, hPc, hMsg, hAgg, sPc, sMsg, sAgg,
                   sent, svcSent, dropped, dbFaulty, reports, scanStatus,
                   scannerVars, lockVars, analyzerVars, intakeVars>>

\* The reporter with a database that answers every statement, well-formed
\* scan.result messages for both scan ids, timers and shutdown.  The end of
\* the process is no step here: goroutines that never run again are a
\* behaviour that stutters.
Next ==
    \/ \E s \in ScanIds : ResultReceive(s)
    \/ ResultLookup
    \/ ResultAppend
    \/ ResultCheck
    \/ ResultReport
    \/ \E a \in 1..MaxAggs : TimerFire(a)
    \/ \E a \in 1..MaxAggs : TimerCheck(a)
    \/ \E a \in 1..MaxAggs : TimerReport(a)
    \/ ShutdownLock
    \/ \E s \in ScanIds : ShutdownIter(s)
    \/ ShutdownUnlock

Spec == Init /\ [][Next]_vars

\* ------------------------------------------------- report synthesis alone
\* generateReport on every aggregator a run can have accumulated: any results
\* (any port, any state, repeated ports included) and any service records.
SeqsUpTo(S, n) == UNION {[1..k -> S] : k \in 0..n}

ResultInputs == [scanID : {"s1"}, port : {1, 2}, state : {"open", "closed", "filtered"}]
ServiceInputs ==
    {[scanID |-> "s1", port |-> p, serviceName |-> n, version |-> ServiceVersion(n)] :
        p \in {1, 2}, n \in ServiceNames}

InitReport ==
    /\ \E results \in SeqsUpTo(ResultInputs, MaxLen) \ {<<>>},
          services \in SeqsUpTo(ServiceInputs, MaxServices) :
            /\ aggs = <<[NewAggregator("s1") EXCEPT !.results = results,
                                                    !.services = services,
                                                    !.resultCount = Len(results)]>>
            /\ sent = [s \in ScanIds |-> IF s = "s1" THEN Len(results) ELSE 0]
            /\ svcSent = Len(services)
    /\ scanAggregators = [s \in ScanIds |-> IF s = "s1" THEN 1 ELSE NoAgg]
    /\ phase = "running"
    /\ todo = {}
    /\ hPc = "idle" /\ hMsg = NoMsg /\ hAgg = NoAgg
    /\ sPc = "idle" /\ sMsg = NoSvc /\ sAgg = NoAgg
    /\ dropped = [t \in Topics |-> NoDrop]
    /\ LocksOff /\ AnalyzerOff /\ IntakeOff
    /\ ScannerOff
    /\ dbFaulty = FALSE
    /\ reports = <<>>
    /\ scanStatus = [s \in ScanIds |-> "pending"]

\* the aggregator is finalized by its timer or by the shutdown loop
NextReport ==
    \/ TimerFire(1)
    \/ TimerCheck(1)
    \/ TimerReport(1)
    \/ ShutdownLock
    \/ ShutdownIter("s1")
    \/ ShutdownUnlock

SpecReport == InitReport /\ [][NextReport]_vars

\* ------------------------------------------- an aggregator near the threshold
\* The state after maxResultsWait - 2 results of "s1" have been handled: one
\* registered aggregator holding them, its timer armed.
NearResults ==
    [k \in 1..(maxResultsWait - 2) |-> [scanID |-> "s1", port |-> k, state |-> PortState(k)]]

ReporterNear(faulty) ==
    /\ aggs = <<[NewAggregator("s1") EXCEPT !.results = NearResults,
                                            !.resultCount = Len(NearResults)]>>
    /\ scanAggregators = [s \in ScanIds |-> IF s = "s1" THEN 1 ELSE NoAgg]
    /\ sent = [s \in ScanIds |-> IF s = "s1" THEN Len(NearResults) ELSE 0]
    /\ phase = "running"
    /\ todo = {}
    /\ hPc = "idle" /\ hMsg = NoMsg /\ hAgg = NoAgg
    /\ sPc = "idle" /\ sMsg = NoSvc /\ sAgg = NoAgg
    /\ svcSent = 0
    /\ dbFaulty = faulty
    /\ reports = <<>>
    /\ scanStatus = [s \in ScanIds |-> "pending"]

InitNear(faulty) ==
    /\ ReporterNear(faulty)
    /\ dropped = [t \in Topics |-> NoDrop]
    /\ LocksOff /\ AnalyzerOff /\ IntakeOff
    /\ ScannerOff

\* Scheduling: every goroutine that can take a step eventually takes it (the
\* Go scheduler is fair and every critical section is finite), and a timer
\* that stays armed fires after resultTimeout.  Cancelling the context is up
\* to the environment and has no fairness.
Fairness ==
    /\ WF_vars(ResultLookup) /\ WF_vars(ResultAppend)
    /\ WF_vars(ResultCheck) /\ WF_vars(ResultReport)
    /\ \A a \in 1..MaxAggs :
          WF_vars(TimerFire(a)) /\ WF_vars(TimerCheck(a)) /\ WF_vars(TimerReport(a))
    /\ WF_vars(\E s \in ScanIds : ShutdownIter(s)) /\ WF_vars(ShutdownUnlock)

InitLive == InitNear(FALSE)

SpecLive == InitLive /\ [][Next]_vars /\ Fairness

\* the same run with a database that may refuse any statement
InitDb == InitNear(TRUE)

SpecDb == InitDb /\ [][Next]_vars

\* ============================================================ scanner agent
\* cmd/scanner-agent: handleScanRequest, scanPorts, scanPort, publishResult.
\* The callbacks of the scan.request subscription run one at a time.  The
\* goroutines scanPorts starts differ only in the port they captured, so they
\* are kept as a bag.
maxWorkers == 10

topPorts == <<21, 22, 23, 25, 80, 110, 443, 445, 3306, 3389, 5432, 6379, 8080, 8443, 27017>>

\* Hosts a request can name: "up" accepts a connection on every port, "down"
\* answers nothing, "mixed" accepts on the ports p with p % 3 = 1, refuses those
\* with p % 3 = 2 and answers nothing on the others.
Targets == {"up", "down", "mixed"}

\* net.DialTimeout("tcp", target:port, portTimeout)
DialTimeout(target, p) ==
    IF target = "up" THEN "connected"
    ELSE IF target = "down" THEN "timeout"
    ELSE IF p % 3 = 1 THEN "connected"
    ELSE IF p % 3 = 2 THEN "refused" ELSE "timeout"

\* scanPort(scanID, target, port)
scanPort(scanID, target, port) ==
    LET result == [id |-> scanID, target |-> target, port |-> port,
                   isOpen |-> FALSE, error |-> ""]
        err    == DialTimeout(target, port)
    IN  IF err # "connected"
        THEN IF err = "timeout"
             THEN [result EXCEPT !.error = "timeout"]
             ELSE [result EXCEPT !.error = "connection_refused"]
        ELSE [result EXCEPT !.isOpen = TRUE]

\* json.Marshal(result) of the scanner's ScanResult: error is omitempty
Encode(result) ==
    IF result.error = ""
    THEN [id |-> result.id, target |-> result.target, port |-> result.port,
          is_open |-> result.isOpen]
    ELSE [id |-> result.id, target |-> result.target, port |-> result.port,
          is_open |-> result.isOpen, error |-> result.error]

\* the value of a key of a decoded JSON object, the zero value when absent
Field(msg, key, zero) == IF key \in DOMAIN msg THEN msg[key] ELSE zero

\* json.Unmarshal(msg.Data, &result) into models.ScanResult, as the consumers
\* of scan.result do: the keys scan_id, port and state
DecodeResult(msg) ==
    [scanID |-> Field(msg, "scan_id", ""),
     port   |-> Field(msg, "port", 0),
     state  |-> Field(msg, "state", "")]

\* a list with more entries than the pool has slots
ManyPorts == [k \in 1..(maxWorkers + 1) |-> 80]

PortLists == (SeqsUpTo({22, 80}, MaxPorts) \ {<<>>}) \cup {ManyPorts}

PublishFailures == Cardinality({i \in DOMAIN published : ~published[i].ok})

\* --------------------------------------------------------- handleScanRequest
\* ScanRequestReceive that hands req.Ports to scanPorts as it is
ScanRequestReceiveNoDefault ==
    /\ qPc = "idle" /\ pending
    /\ pending' = FALSE
    /\ ports' = request.ports
    /\ qPc' = "spawn"
    /\ spawned' = 0 /\ workers' = EmptyBag /\ sem' = 0 /\ wg' = 0
    /\ resultsCh' = <<>> /\ closed' = FALSE /\ closer' = "none"
    /\ UNCHANGED <<request, sendLog, published, completed, reporterVars, dropped, lockVars, analyzerVars, intakeVars>>

\* The request decodes; ports := req.Ports, topPorts when empty; scanPorts is
\* entered: results, sem and wg are made.
ScanRequestReceive ==
    /\ qPc = "idle" /\ pending
    /\ pending' = FALSE
    /\ ports' = IF Len(request.ports) = 0 THEN topPorts ELSE request.ports
    /\ qPc' = "spawn"
    /\ spawned' = 0 /\ workers' = EmptyBag /\ sem' = 0 /\ wg' = 0
    /\ resultsCh' = <<>> /\ closed' = FALSE /\ closer' = "none"
    /\ UNCHANGED <<request, sendLog, published, completed, reporterVars, dropped, lockVars, analyzerVars, intakeVars>>

\* ScanRequestMalformed that goes on with the zero request after the error
ScanRequestMalformedNoReturn ==
    /\ qPc = "idle"
    /\ dropped["scan.request"] = NoDrop
    /\ dropped' = [dropped EXCEPT !["scan.request"] = IF pending THEN 0 ELSE 1]
    /\ ports' = topPorts
    /\ qPc' = "spawn"
    /\ spawned' = 0 /\ workers' = EmptyBag /\ sem' = 0 /\ wg' = 0
    /\ resultsCh' = <<>> /\ closed' = FALSE /\ closer' = "none"
    /\ UNCHANGED <<request, pending, sendLog, published, completed, reporterVars,
                   lockVars, analyzerVars, intakeVars>>

\* json.Unmarshal fails: logged, return.
ScanRequestMalformed ==
    /\ qPc = "idle"
    /\ dropped["scan.request"] = NoDrop
    /\ dropped' = [dropped EXCEPT !["scan.request"] = IF pending THEN 0 ELSE 1]
    /\ UNCHANGED <<reporterVars, scannerVars, lockVars, analyzerVars, intakeVars>>

\* ----------------------------------------------------------------- scanPorts
\* one iteration of the for loop: wg.Add(1); go func(p int) {...}(port)
Spawn ==
    /\ qPc = "spawn" /\ spawned < Len(ports)
    /\ wg' = wg + 1
    /\ workers' = workers (+) SetToBag({[port |-> ports[spawned + 1], pc |-> "start"]})
    /\ spawned' = spawned + 1
    /\ UNCHANGED <<request, pending, qPc, ports, sem, resultsCh, closed, closer,
                   sendLog, published, completed, reporterVars, dropped, lockVars, analyzerVars, intakeVars>>

\* the loop is over: go func() { wg.Wait(); close(results) }(); the range begins
StartCloser ==
    /\ qPc = "spawn" /\ spawned = Len(ports)
    /\ closer' = "waiting"
    /\ qPc' = "range"
    /\ UNCHANGED <<request, pending, ports, spawned, workers, sem, wg, resultsCh,
                   closed, sendLog, published, completed, reporterVars, dropped, lockVars, analyzerVars, intakeVars>>

\* the bag with the goroutine w moved to pc
Move(w, pc) == (workers (-) SetToBag({w})) (+) SetToBag({[w EXCEPT !.pc = pc]})

\* WorkerAcquire that starts the probe without a slot
WorkerAcquireNoWait(w) ==
    /\ BagIn(w, workers) /\ w.pc = "start"
    /\ sem' = sem + 1
    /\ workers' = Move(w, "probing")
    /\ UNCHANGED <<request, pending, qPc, ports, spawned, wg, resultsCh, closed,
                   closer, sendLog, published, completed, reporterVars, dropped, lockVars, analyzerVars, intakeVars>>

\* sem <- struct{}{} : blocks while all maxWorkers slots are taken
WorkerAcquire(w) ==
    /\ BagIn(w, workers) /\ w.pc = "start"
    /\ sem < maxWorkers
    /\ sem' = sem + 1
    /\ workers' = Move(w, "probing")
    /\ UNCHANGED <<request, pending, qPc, ports, spawned, wg, resultsCh, closed,
                   closer, sendLog, published, completed, reporterVars, dropped, lockVars, analyzerVars, intakeVars>>

\* WorkerProbe that sends a result only when the connection was made
WorkerProbeOpenOnly(w) ==
    /\ BagIn(w, workers) /\ w.pc = "probing"
    /\ Len(resultsCh) < Len(ports)
    /\ LET result == scanPort(request.id, request.target, w.port)
       IN  IF result.isOpen
           THEN /\ resultsCh' = Append(resultsCh, result)
                /\ sendLog' = Append(sendLog, result)
           ELSE UNCHANGED <<resultsCh, sendLog>>
    /\ workers' = Move(w, "sent")
    /\ UNCHANGED <<request, pending, qPc, ports, spawned, sem, wg, closed, closer,
                   published, completed, reporterVars, dropped, lockVars, analyzerVars, intakeVars>>

\* result := sa.scanPort(scanID, target, p); results <- result.  The channel
\* has room for len(ports) results.
WorkerProbe(w) ==
    /\ BagIn(w, workers) /\ w.pc = "probing"
    /\ Len(resultsCh) < Len(ports)
    /\ LET result == scanPort(request.id, request.target, w.port)
       IN  /\ resultsCh' = Append(resultsCh, result)
           /\ sendLog' = Append(sendLog, result)
    /\ workers' = Move(w, "sent")
    /\ UNCHANGED <<request, pending, qPc, ports, spawned, sem, wg, closed, closer,
                   published, completed, reporterVars, dropped, lockVars, analyzerVars, intakeVars>>

\* WorkerReturn without the deferred wg.Done()
WorkerReturnNoDone(w) ==
    /\ BagIn(w, workers) /\ w.pc = "sent"
    /\ sem' = sem - 1
    /\ workers' = workers (-) SetToBag({w})
    /\ UNCHANGED <<request, pending, qPc, ports, spawned, wg, resultsCh, closed, closer,
                   sendLog, published, completed, reporterVars, dropped, lockVars, analyzerVars, intakeVars>>

\* the deferred calls, last registered first: <-sem; wg.Done()
WorkerReturn(w) ==
    /\ BagIn(w, workers) /\ w.pc = "sent"
    /\ sem' = sem - 1
    /\ wg' = wg - 1
    /\ workers' = workers (-) SetToBag({w})
    /\ UNCHANGED <<request, pending, qPc, ports, spawned, resultsCh, closed, closer,
                   sendLog, published, completed, reporterVars, dropped, lockVars, analyzerVars, intakeVars>>

\* wg.Wait() returns; close(results)
CloseResults ==
    /\ closer = "waiting" /\ wg = 0
    /\ closed' = TRUE
    /\ closer' = "done"
    /\ UNCHANGED <<request, pending, qPc, ports, spawned, workers, sem, wg, resultsCh,
                   sendLog, published, completed, reporterVars, dropped, lockVars, analyzerVars, intakeVars>>

\* PublishResult on a loop that starts once the channel is closed
PublishResultBatched(ok) ==
    /\ qPc = "range" /\ resultsCh # <<>> /\ closed
    /\ ok \/ PublishFailures < MaxPublishFailures
    /\ published' = Append(published, [msg |-> Encode(Head(resultsCh)), ok |-> ok])
    /\ resultsCh' = Tail(resultsCh)
    /\ UNCHANGED <<request, pending, qPc, ports, spawned, workers, sem, wg, closed,
                   closer, sendLog, completed, reporterVars, dropped, lockVars, analyzerVars, intakeVars>>

\* one iteration of for result := range results: sa.publishResult(result); an
\* error of nc.Publish is logged and the loop goes on
PublishResult(ok) ==
    /\ qPc = "range" /\ resultsCh # <<>>
    /\ ok \/ PublishFailures < MaxPublishFailures
    /\ published' = Append(published, [msg |-> Encode(Head(resultsCh)), ok |-> ok])
    /\ resultsCh' = Tail(resultsCh)
    /\ UNCHANGED <<request, pending, qPc, ports, spawned, workers, sem, wg, closed,
                   closer, sendLog, completed, reporterVars, dropped, lockVars, analyzerVars, intakeVars>>

\* ScanCompleted on a range loop that ends when the channel is empty
ScanCompletedOnEmpty ==
    /\ qPc = "range" /\ resultsCh = <<>>
    /\ completed' = TRUE
    /\ qPc' = "idle"
    /\ UNCHANGED <<request, pending, ports, spawned, workers, sem, wg, resultsCh,
                   closed, closer, sendLog, published, reporterVars, dropped, lockVars, analyzerVars, intakeVars>>

\* the range loop ends (channel closed and drained): "Completed port scan",
\* scanPorts and handleScanRequest return
ScanCompleted ==
    /\ qPc = "range" /\ resultsCh = <<>> /\ closed
    /\ completed' = TRUE
    /\ qPc' = "idle"
    /\ UNCHANGED <<request, pending, ports, spawned, workers, sem, wg, resultsCh,
                   closed, closer, sendLog, published, reporterVars, dropped, lockVars, analyzerVars, intakeVars>>

\* the reporter agent before any message
ReporterIdle ==
    /\ scanAggregators = [s \in ScanIds |-> NoAgg]
    /\ aggs = <<>>
    /\ phase = "running"
    /\ todo = {}
    /\ hPc = "idle" /\ hMsg = NoMsg /\ hAgg = NoAgg
    /\ sPc = "idle" /\ sMsg = NoSvc /\ sAgg = NoAgg
    /\ sent = [s \in ScanIds |-> 0]
    /\ svcSent = 0
    /\ dbFaulty = FALSE
    /\ reports = <<>>
    /\ scanStatus = [s \in ScanIds |-> "pending"]

\* One scan request: a non-empty port list and a target.
InitScan ==
    /\ \E list \in PortLists, target \in Targets :
          request = [id |-> "s1", target |-> target, ports |-> list]
    /\ pending = TRUE
    /\ ScannerIdle
    /\ dropped = [t \in Topics |-> NoDrop]
    /\ LocksOff /\ AnalyzerOff /\ IntakeOff
    /\ ReporterIdle

NextScan ==
    \/ ScanRequestReceive
    \/ Spawn
    \/ StartCloser
    \/ \E w \in BagToSet(workers) : WorkerAcquire(w)
    \/ \E w \in BagToSet(workers) : WorkerProbe(w)
    \/ \E w \in BagToSet(workers) : WorkerReturn(w)
    \/ CloseResults
    \/ \E ok \in BOOLEAN : PublishResult(ok)
    \/ ScanCompleted

SpecScan == InitScan /\ [][NextScan]_vars

\* ------------------------------------------------ scanPorts, one port at a time
\* The runs of scanPorts in which the goroutines take their slots in the order
\* of the port list and each returns before the next takes its slot.  The
\* default list has 15 different ports; these runs keep its scan small.
SerialSchedule ==
    \A w \in BagToSet(workers) :
        w.pc # "start" =>
            /\ CopiesIn(w, workers) = 1
            /\ w.port = ports[spawned - BagCardinality(workers) + 1]
            /\ \A v \in BagToSet(workers) : v.pc # "start" => v = w

\* One scan request: any port list, the empty one included, and a target.
InitSerial ==
    /\ \E list \in PortLists \cup {<<>>}, target \in Targets :
          request = [id |-> "s1", target |-> target, ports |-> list]
    /\ pending = TRUE
    /\ ScannerIdle
    /\ dropped = [t \in Topics |-> NoDrop]
    /\ LocksOff /\ AnalyzerOff /\ IntakeOff
    /\ ReporterIdle

NextSerial ==
    \/ ScanRequestReceive
    \/ Spawn
    \/ StartCloser
    \/ \E w \in BagToSet(workers) : WorkerAcquire(w) /\ SerialSchedule'
    \/ \E w \in BagToSet(workers) : WorkerProbe(w)
    \/ \E w \in BagToSet(workers) : WorkerReturn(w)
    \/ CloseResults
    \/ \E ok \in BOOLEAN : PublishResult(ok)
    \/ ScanCompleted

SpecSerial == InitSerial /\ [][NextSerial]_vars

\* ------------------------------------------------------- scanPorts as called
\* The call scanPorts(scanID, target, ports) itself, entered with any port
\* list: the empty one (which handleScanRequest replaces by topPorts before
\* calling), short ones, and one longer than the pool.
InitPorts ==
    /\ \E list \in PortLists \cup {<<>>}, target \in Targets :
          /\ request = [id |-> "s1", target |-> target, ports |-> list]
          /\ ports = list
    /\ pending = FALSE
    /\ qPc = "spawn"
    /\ spawned = 0 /\ workers = EmptyBag /\ sem = 0 /\ wg = 0
    /\ resultsCh = <<>> /\ closed = FALSE /\ closer = "none"
    /\ sendLog = <<>> /\ published = <<>> /\ completed = FALSE
    /\ dropped = [t \in Topics |-> NoDrop]
    /\ LocksOff /\ AnalyzerOff /\ IntakeOff
    /\ ReporterIdle

NextPorts ==
    \/ Spawn
    \/ StartCloser
    \/ \E w \in BagToSet(workers) : WorkerAcquire(w)
    \/ \E w \in BagToSet(workers) : WorkerProbe(w)
    \/ \E w \in BagToSet(workers) : WorkerReturn(w)
    \/ CloseResults
    \/ \E ok \in BOOLEAN : PublishResult(ok)
    \/ ScanCompleted

\* Scheduling: the Go scheduler runs every goroutine that is not blocked, a
\* goroutine blocked on the semaphore or on the channel is woken when the
\* operation becomes possible, every dial returns within portTimeout and
\* every nc.Publish returns.
FairPorts ==
    /\ WF_vars(Spawn) /\ WF_vars(StartCloser)
    /\ WF_vars(\E w \in BagToSet(workers) : WorkerAcquire(w))
    /\ WF_vars(\E w \in BagToSet(workers) : WorkerProbe(w))
    /\ WF_vars(\E w \in BagToSet(workers) : WorkerReturn(w))
    /\ WF_vars(CloseResults)
    /\ WF_vars(\E ok \in BOOLEAN : PublishResult(ok))
    /\ WF_vars(ScanCompleted)

SpecPorts == InitPorts /\ [][NextPorts]_vars /\ FairPorts

\* --------------------------------------------------- payloads that do not decode
\* The three subscriptions, each of which may be handed one payload that does
\* not decode, before, between or after its well-formed messages: the reporter
\* two results short of the threshold of the scan "s1" and receiving its
\* further results and SSH records, the scanner with a request for one port of
\* the target "mixed".
InitDrop ==
    /\ ReporterNear(FALSE)
    /\ dropped = [t \in Topics |-> NoDrop]
    /\ LocksOff /\ AnalyzerOff /\ IntakeOff
    /\ request = [id |-> "s1", target |-> "mixed", ports |-> <<22>>]
    /\ pending = TRUE
    /\ ScannerIdle

NextDrop ==
    \/ ResultMalformed
    \/ ServiceMalformed
    \/ ScanRequestMalformed
    \/ ResultReceive("s1")
    \/ ResultLookup
    \/ ResultAppend
    \/ ResultCheck
    \/ ResultReport
    \/ ServiceReceive("s1", "SSH")
    \/ ServiceLookup
    \/ ServiceAppend
    \/ NextScan

SpecDrop == InitDrop /\ [][NextDrop]_vars

\* ------------------------------------------- both subscriptions of the reporter
\* scan.result and service.detected messages of both scans and the timers of
\* the running agent; s1 has an aggregator one result short of the threshold,
\* s2 has none yet
NextSvc ==
    \/ \E s \in ScanIds : ResultReceive(s)
    \/ ResultLookup
    \/ ResultAppend
    \/ ResultCheck
    \/ ResultReport
    \/ \E a \in 1..MaxAggs : TimerFire(a)
    \/ \E a \in 1..MaxAggs : TimerCheck(a)
    \/ \E a \in 1..MaxAggs : TimerReport(a)
    \/ \E s \in ScanIds : ServiceReceive(s, "SSH")
    \/ ServiceLookup
    \/ ServiceAppend

\* one result short of the threshold
SvcResults ==
    [k \in 1..(maxResultsWait - 1) |-> [scanID |-> "s1", port |-> k, state |-> PortState(k)]]

InitSvc ==
    /\ aggs = <<[NewAggregator("s1") EXCEPT !.results = SvcResults,
                                            !.resultCount = Len(SvcResults)]>>
    /\ scanAggregators = [s \in ScanIds |-> IF s = "s1" THEN 1 ELSE NoAgg]
    /\ sent = [s \in ScanIds |-> IF s = "s1" THEN Len(SvcResults) ELSE 0]
    /\ phase = "running"
    /\ todo = {}
    /\ hPc = "idle" /\ hMsg = NoMsg /\ hAgg = NoAgg
    /\ sPc = "idle" /\ sMsg = NoSvc /\ sAgg = NoAgg
    /\ svcSent = 0
    /\ dbFaulty = FALSE
    /\ reports = <<>>
    /\ scanStatus = [s \in ScanIds |-> "pending"]
    /\ dropped = [t \in Topics |-> NoDrop]
    /\ LocksOff /\ AnalyzerOff /\ IntakeOff
    /\ ScannerOff

SpecSvc == InitSvc /\ [][NextSvc]_vars

\* ------------------------------------------------- scanner to reporter
\* The scanner's scan.result messages as the reporter receives them.  The
\* registry is a Go map keyed by string: besides the ids of the requests it
\* can hold the zero string, which is what a decoded message without the
\* key scan_id gives.
Keys == ScanIds \cup {""}

\* scan.result messages the reporter has taken so far
Taken == sent[""] + sent["s1"] + sent["s2"]

\* NATS hands the next published message to handleScanResult, which decodes
\* it into models.ScanResult
ResultDeliver ==
    /\ phase = "running" /\ hPc = "idle"
    /\ Taken < Len(published)
    /\ LET result == DecodeResult(published[Taken + 1].msg)
       IN  /\ hMsg' = result
           /\ sent' = [sent EXCEPT ![result.scanID] = @ + 1]
    /\ hPc' = "lookup"
    /\ UNCHANGED <<scanAggregators, aggs, phase, todo, hAgg, sPc, sMsg, sAgg,
                   svcSent, dropped, reports, scanStatus, dbFaulty,
                   scannerVars, lockVars, analyzerVars, intakeVars>>

\* one request for an open and a closed port, both agents just started
InitPipe ==
    /\ request = [id |-> "s1", target |-> "mixed", ports |-> <<22, 80>>]
    /\ pending = TRUE
    /\ ScannerIdle
    /\ dropped = [t \in Topics |-> NoDrop]
    /\ LocksOff /\ AnalyzerOff /\ IntakeOff
    /\ scanAggregators = [s \in Keys |-> NoAgg]
    /\ aggs = <<>>
    /\ phase = "running"
    /\ todo = {}
    /\ hPc = "idle" /\ hMsg = NoMsg /\ hAgg = NoAgg
    /\ sPc = "idle" /\ sMsg = NoSvc /\ sAgg = NoAgg
    /\ sent = [s \in Keys |-> 0]
    /\ svcSent = 0
    /\ dbFaulty = FALSE
    /\ reports = <<>>
    /\ scanStatus = [s \in ScanIds |-> "pending"]

NextPipe ==
    \/ ScanRequestReceive
    \/ Spawn
    \/ StartCloser
    \/ \E w \in BagToSet(workers) : WorkerAcquire(w)
    \/ \E w \in BagToSet(workers) : WorkerProbe(w)
    \/ \E w \in BagToSet(workers) : WorkerReturn(w)
    \/ CloseResults
    \/ PublishResult(TRUE)
    \/ ScanCompleted
    \/ ResultDeliver
    \/ ResultLookup
    \/ ResultAppend
    \/ \E a \in 1..MaxAggs : TimerFire(a)
    \/ \E a \in 1..MaxAggs : TimerCheck(a)
    \/ \E a \in 1..MaxAggs : TimerReport(a)

SpecPipe == InitPipe /\ [][NextPipe]_vars

\* ------------------------------------------------------- the reporter's locks
\* The same four code paths with one step per Lock and per Unlock: ra.mutex
\* (a sync.RWMutex) and the sync.Mutex of every aggregator.  Of the data only
\* what decides the path is kept: which aggregator is registered (one scan
\* id) and whether the count has reached maxResultsWait, which is left open.
Hg == <<"h", 0>>        \* the goroutine of the scan.result subscription
Sg == <<"s", 0>>        \* the goroutine of the service.detected subscription
Mg == <<"m", 0>>        \* Start, called by main
Tg(a) == <<"t", a>>     \* the callback of the timer of aggregator a

\* every message creates at most one aggregator
LkAggs == 1..MaxMessages

Goroutines == {Hg, Sg, Mg} \cup {Tg(a) : a \in LkAggs}

\* main has not returned from Start: the process is there
LkRunning == lkPc[Mg] # "exited"

\* a goroutine has called ra.mutex.Lock() and is blocked in it
WriterWaiting == \E g \in Goroutines : lkPc[g] \in {"lock1", "lock2"}

LkOthers == <<reporterVars, dropped, scannerVars, analyzerVars, intakeVars>>

\* timer.Stop() on the timer of aggregator a
LkStop(pcs, a) == IF pcs[Tg(a)] = "armed" THEN [pcs EXCEPT ![Tg(a)] = "stopped"] ELSE pcs

\* a scan.result message is delivered: handleScanResult runs up to ra.mutex.Lock()
LkResultArrive ==
    /\ lkPc[Mg] = "run" /\ lkPc[Hg] = "idle"
    /\ lkMsgs < MaxMessages
    /\ lkMsgs' = lkMsgs + 1
    /\ lkPc' = [lkPc EXCEPT ![Hg] = "lock1"]
    /\ UNCHANGED <<lkReg, lkReaders, lkAgg, lkPtr, lkMap, lkMade, lkTodo, lkSvcs, LkOthers>>

\* ra.mutex.Lock() returns: no writer and no reader holds the mutex
LkLock(g) ==
    /\ LkRunning /\ lkPc[g] \in {"lock1", "lock2"}
    /\ lkReg = NoOne /\ lkReaders = {}
    /\ lkReg' = g
    /\ lkPc' = [lkPc EXCEPT ![g] = IF lkPc[g] = "lock1" THEN "in1" ELSE "in2"]
    /\ UNCHANGED <<lkReaders, lkAgg, lkPtr, lkMap, lkMade, lkTodo, lkMsgs, lkSvcs, LkOthers>>

\* handleScanResult: lookup, create and register when absent (the timer is
\* armed), ra.mutex.Unlock()
LkResultLookup ==
    /\ LkRunning /\ lkPc[Hg] = "in1"
    /\ IF lkMap # NoAgg
       THEN /\ lkPtr' = [lkPtr EXCEPT ![Hg] = lkMap]
            /\ lkPc' = [lkPc EXCEPT ![Hg] = "lockA"]
            /\ UNCHANGED <<lkMap, lkMade>>
       ELSE /\ lkMade' = lkMade + 1
            /\ lkMap' = lkMade + 1
            /\ lkPtr' = [lkPtr EXCEPT ![Hg] = lkMade + 1]
            /\ lkPc' = [lkPc EXCEPT ![Hg] = "lockA", ![Tg(lkMade + 1)] = "armed"]
    /\ lkReg' = NoOne
    /\ UNCHANGED <<lkReaders, lkAgg, lkTodo, lkMsgs, lkSvcs, LkOthers>>

\* aggregator.mutex.Lock() returns, in a handler ("lockA") or at the top of
\* generateReport ("lockG")
LkAggLock(g) ==
    /\ LkRunning /\ lkPc[g] \in {"lockA", "lockG"}
    /\ lkAgg[lkPtr[g]] = NoOne
    /\ lkAgg' = [lkAgg EXCEPT ![lkPtr[g]] = g]
    /\ lkPc' = [lkPc EXCEPT ![g] = IF lkPc[g] = "lockA" THEN "inA" ELSE "inG"]
    /\ UNCHANGED <<lkReg, lkReaders, lkPtr, lkMap, lkMade, lkTodo, lkMsgs, lkSvcs, LkOthers>>

\* LkResultAppend that goes on to the threshold check with aggregator.mutex held
LkResultAppendHolding ==
    /\ LkRunning /\ lkPc[Hg] = "inA"
    /\ \E reached \in BOOLEAN :
          IF reached
          THEN lkPc' = [lkPc EXCEPT ![Hg] = "lock2"] /\ UNCHANGED lkAgg
          ELSE /\ lkPc' = [lkPc EXCEPT ![Hg] = "idle"]
               /\ lkAgg' = [lkAgg EXCEPT ![lkPtr[Hg]] = NoOne]
    /\ UNCHANGED <<lkReg, lkReaders, lkPtr, lkMap, lkMade, lkTodo, lkMsgs, lkSvcs, LkOthers>>

\* handleScanResult: append, count, aggregator.mutex.Unlock(); then either
\* return or go for ra.mutex.Lock() of the threshold check
LkResultAppend ==
    /\ LkRunning /\ lkPc[Hg] = "inA"
    /\ lkAgg' = [lkAgg EXCEPT ![lkPtr[Hg]] = NoOne]
    /\ \E reached \in BOOLEAN :
          lkPc' = [lkPc EXCEPT ![Hg] = IF reached THEN "lock2" ELSE "idle"]
    /\ UNCHANGED <<lkReg, lkReaders, lkPtr, lkMap, lkMade, lkTodo, lkMsgs, lkSvcs, LkOthers>>

\* the critical section of the threshold check, and of the timer callback
\* (which has no timer.Stop()): take the registered aggregator out and
\* ra.mutex.Unlock(); generateReport follows when there was one
LkTakeOut(g) ==
    /\ LkRunning
    /\ \/ g = Hg /\ lkPc[g] = "in2"
       \/ g # Hg /\ g # Mg /\ lkPc[g] = "in1"
    /\ IF lkMap # NoAgg
       THEN /\ lkPtr' = [lkPtr EXCEPT ![g] = lkMap]
            /\ lkMap' = NoAgg
            /\ lkPc' = [(IF g = Hg THEN LkStop(lkPc, lkMap) ELSE lkPc) EXCEPT ![g] = "lockG"]
       ELSE /\ lkPc' = [lkPc EXCEPT ![g] = IF g = Hg THEN "idle" ELSE "done"]
            /\ UNCHANGED <<lkPtr, lkMap>>
    /\ lkReg' = NoOne
    /\ UNCHANGED <<lkReaders, lkAgg, lkMade, lkTodo, lkMsgs, lkSvcs, LkOthers>>

\* generateReport returns: the deferred aggregator.mutex.Unlock()
LkReport(g) ==
    /\ LkRunning /\ lkPc[g] = "inG"
    /\ lkAgg' = [lkAgg EXCEPT ![lkPtr[g]] = NoOne]
    /\ lkPc' = [lkPc EXCEPT ![g] = IF g = Hg THEN "idle"
                                   ELSE IF g = Mg THEN "loop" ELSE "done"]
    /\ UNCHANGED <<lkReg, lkReaders, lkPtr, lkMap, lkMade, lkTodo, lkMsgs, lkSvcs, LkOthers>>

\* a service.detected message is delivered: handleServiceDetected runs up to
\* ra.mutex.RLock()
LkServiceArrive ==
    /\ lkPc[Mg] = "run" /\ lkPc[Sg] = "idle"
    /\ lkSvcs < MaxServices
    /\ lkSvcs' = lkSvcs + 1
    /\ lkPc' = [lkPc EXCEPT ![Sg] = "rlock"]
    /\ UNCHANGED <<lkReg, lkReaders, lkAgg, lkPtr, lkMap, lkMade, lkTodo, lkMsgs, LkOthers>>

\* ra.mutex.RLock() returns: no writer holds the mutex and none is blocked
\* in Lock()
LkRLock ==
    /\ LkRunning /\ lkPc[Sg] = "rlock"
    /\ lkReg = NoOne /\ ~WriterWaiting
    /\ lkReaders' = lkReaders \cup {Sg}
    /\ lkPc' = [lkPc EXCEPT ![Sg] = "inR"]
    /\ UNCHANGED <<lkReg, lkAgg, lkPtr, lkMap, lkMade, lkTodo, lkMsgs, lkSvcs, LkOthers>>

\* handleServiceDetected: lookup, ra.mutex.RUnlock(); return when absent
LkServiceLookup ==
    /\ LkRunning /\ lkPc[Sg] = "inR"
    /\ lkReaders' = lkReaders \ {Sg}
    /\ lkPtr' = [lkPtr EXCEPT ![Sg] = lkMap]
    /\ lkPc' = [lkPc EXCEPT ![Sg] = IF lkMap # NoAgg THEN "lockA" ELSE "idle"]
    /\ UNCHANGED <<lkReg, lkAgg, lkMap, lkMade, lkTodo, lkMsgs, lkSvcs, LkOthers>>

\* handleServiceDetected: append, aggregator.mutex.Unlock()
LkServiceAppend ==
    /\ LkRunning /\ lkPc[Sg] = "inA"
    /\ lkAgg' = [lkAgg EXCEPT ![lkPtr[Sg]] = NoOne]
    /\ lkPc' = [lkPc EXCEPT ![Sg] = "idle"]
    /\ UNCHANGED <<lkReg, lkReaders, lkPtr, lkMap, lkMade, lkTodo, lkMsgs, lkSvcs, LkOthers>>

\* resultTimeout elapses: the callback starts and runs up to ra.mutex.Lock()
LkTimerFire(a) ==
    /\ LkRunning /\ lkPc[Tg(a)] = "armed"
    /\ lkPc' = [lkPc EXCEPT ![Tg(a)] = "lock1"]
    /\ UNCHANGED <<lkReg, lkReaders, lkAgg, lkPtr, lkMap, lkMade, lkTodo, lkMsgs, lkSvcs, LkOthers>>

\* <-ctx.Done() returns; Start unsubscribes and goes for ra.mutex.Lock()
LkCancel ==
    /\ lkPc[Mg] = "run"
    /\ lkPc' = [lkPc EXCEPT ![Mg] = "lock1"]
    /\ UNCHANGED <<lkReg, lkReaders, lkAgg, lkPtr, lkMap, lkMade, lkTodo, lkMsgs, lkSvcs, LkOthers>>

\* for scanID, aggregator := range ra.scanAggregators, with ra.mutex held
LkShutdownRange ==
    /\ lkPc[Mg] = "in1"
    /\ lkTodo' = {lkMap} \ {NoAgg}
    /\ lkPc' = [lkPc EXCEPT ![Mg] = "loop"]
    /\ UNCHANGED <<lkReg, lkReaders, lkAgg, lkPtr, lkMap, lkMade, lkMsgs, lkSvcs, LkOthers>>

\* one iteration: aggregator.timer.Stop(); ra.generateReport(aggregator)
\* runs up to aggregator.mutex.Lock(), ra.mutex still held
LkShutdownIter(a) ==
    /\ lkPc[Mg] = "loop" /\ a \in lkTodo
    /\ lkTodo' = lkTodo \ {a}
    /\ lkPtr' = [lkPtr EXCEPT ![Mg] = a]
    /\ lkPc' = [LkStop(lkPc, a) EXCEPT ![Mg] = "lockG"]
    /\ UNCHANGED <<lkReg, lkReaders, lkAgg, lkMap, lkMade, lkMsgs, lkSvcs, LkOthers>>

\* the loop is over: ra.mutex.Unlock(); Start returns and main ends the process
LkShutdownUnlock ==
    /\ lkPc[Mg] = "loop" /\ lkTodo = {}
    /\ lkReg' = NoOne
    /\ lkPc' = [lkPc EXCEPT ![Mg] = "exited"]
    /\ UNCHANGED <<lkReaders, lkAgg, lkPtr, lkMap, lkMade, lkTodo, lkMsgs, lkSvcs, LkOthers>>

InitLocks ==
    /\ lkPc = [g \in Goroutines |->
                  IF g = Mg THEN "run" ELSE IF g \in {Hg, Sg} THEN "idle" ELSE "none"]
    /\ lkReg = NoOne /\ lkReaders = {}
    /\ lkAgg = [a \in LkAggs |-> NoOne]
    /\ lkPtr = [g \in Goroutines |-> NoAgg]
    /\ lkMap = NoAgg /\ lkMade = 0 /\ lkTodo = {}
    /\ lkMsgs = 0 /\ lkSvcs = 0
    /\ ReporterIdle
    /\ dropped = [t \in Topics |-> NoDrop]
    /\ AnalyzerOff /\ IntakeOff
    /\ ScannerOff

\* the steps the goroutines take by themselves
LkProgress ==
    \/ \E g \in Goroutines : LkLock(g)
    \/ LkResultLookup
    \/ \E g \in Goroutines : LkAggLock(g)
    \/ LkResultAppend
    \/ \E g \in Goroutines : LkTakeOut(g)
    \/ \E g \in Goroutines : LkReport(g)
    \/ LkRLock
    \/ LkServiceLookup
    \/ LkServiceAppend
    \/ LkShutdownRange
    \/ \E a \in LkAggs : LkShutdownIter(a)
    \/ LkShutdownUnlock

NextLocks ==
    \/ LkResultArrive
    \/ LkServiceArrive
    \/ \E a \in LkAggs : LkTimerFire(a)
    \/ LkCancel
    \/ LkProgress

\* Scheduling: a goroutine that can run is run, and a goroutine blocked in
\* Lock or RLock gets the mutex once it stays free; the database answers
\* every statement of generateReport.  Messages, timeouts and the
\* cancellation come when the environment sends them.
FairLocks ==
    /\ \A g \in Goroutines :
          WF_vars(LkLock(g)) /\ WF_vars(LkAggLock(g))
          /\ WF_vars(LkTakeOut(g)) /\ WF_vars(LkReport(g))
    /\ WF_vars(LkResultLookup) /\ WF_vars(LkResultAppend)
    /\ WF_vars(LkRLock) /\ WF_vars(LkServiceLookup) /\ WF_vars(LkServiceAppend)
    /\ WF_vars(LkShutdownRange) /\ WF_vars(\E a \in LkAggs : LkShutdownIter(a))
    /\ WF_vars(LkShutdownUnlock)

SpecLocks == InitLocks /\ [][NextLocks]_vars /\ FairLocks

\* ------------------------------------------------- the fingerprinting engine
\* The analyzer's code is not among the sources; this part follows the
\* specification's section 4.2 and data model.  The engine receives the
\* PortResults of the scans (one per probed port), starts one fingerprint
\* task per open port, and each task emits one ServiceRecord.
WellKnownPorts ==
    [p \in {21, 22, 23, 25, 80, 110, 143, 443, 445, 1433, 3306, 3389, 5432, 5900,
            6379, 8080, 8443, 27017} |->
        CASE p = 21 -> "FTP" [] p = 22 -> "SSH" [] p = 23 -> "Telnet"
          [] p = 25 -> "SMTP" [] p = 80 -> "HTTP" [] p = 110 -> "POP3"
          [] p = 143 -> "IMAP" [] p = 443 -> "HTTPS" [] p = 445 -> "SMB"
          [] p = 1433 -> "MSSQL" [] p = 3306 -> "MySQL" [] p = 3389 -> "RDP"
          [] p = 5432 -> "PostgreSQL" [] p = 5900 -> "VNC" [] p = 6379 -> "Redis"
          [] p = 8080 -> "HTTP-Proxy" [] p = 8443 -> "HTTPS-Alt"
          [] p = 27017 -> "MongoDB"]

\* stage (a): the name the record starts from
DefaultName(p) == IF p \in DOMAIN WellKnownPorts THEN WellKnownPorts[p] ELSE "unknown"

\* the ports a protocol handler exists for; the others get the generic
\* banner grab
HandlerPorts == {22, 80, 443, 3306, 5432, 6379, 27017}

\* how a probe can end: a positive match, data that matches nothing
\* (partial or garbled), or an I/O failure at connect, write or read
IoFailures == {"connect_failed", "write_failed", "read_failed"}
ProbeOutcomes == {"match", "garbled"} \cup IoFailures

\* what a positive match yields: the handler's protocol and the version it
\* extracts (port 22: "SSH-2.0-OpenSSH_8.9" gives 8.9), or the keyword the
\* generic grab finds in the banner (here the banner of an ftp server)
Matched(p) ==
    IF p \in HandlerPorts
    THEN [serviceName |-> WellKnownPorts[p], version |-> IF p = 22 THEN "8.9" ELSE ""]
    ELSE [serviceName |-> "FTP", version |-> ""]

\* Fingerprint that calls the service unknown when the probe fails
FingerprintDowngrade(p, outcome) ==
    IF outcome = "match" THEN Matched(p)
    ELSE [serviceName |-> "unknown", version |-> ""]

\* stage (b): the name and version of the record after the probe
Fingerprint(p, outcome) ==
    IF outcome = "match" THEN Matched(p)
    ELSE [serviceName |-> DefaultName(p), version |-> ""]

\* the ports probed in this run: an SSH port, a well-known port without a
\* handler and a port outside the table for the scan s1, the SSH port for s2
FpKeys == {<<"s1", 22>>, <<"s1", 445>>, <<"s1", 9999>>, <<"s2", 22>>}

PortStates == {"open", "closed", "filtered"}

\* FpReceive that starts a task for every PortResult
FpReceiveAnyState(r) ==
    /\ fpPhase = "running" /\ r \in fpInbox
    /\ fpInbox' = fpInbox \ {r}
    /\ fpTasks' = fpTasks \cup {[scanId |-> r.scanId, port |-> r.port,
                                 pc |-> "probing", outcome |-> ""]}
    /\ UNCHANGED <<fpScan, fpRecords, fpPhase,
                   reporterVars, dropped, scannerVars, lockVars, intakeVars>>

\* a PortResult arrives: an open port starts a fingerprint task, any other
\* state is ignored
FpReceive(r) ==
    /\ fpPhase = "running" /\ r \in fpInbox
    /\ fpInbox' = fpInbox \ {r}
    /\ fpTasks' = IF r.state = "open"
                  THEN fpTasks \cup {[scanId |-> r.scanId, port |-> r.port,
                                      pc |-> "probing", outcome |-> ""]}
                  ELSE fpTasks
    /\ UNCHANGED <<fpScan, fpRecords, fpPhase,
                   reporterVars, dropped, scannerVars, lockVars, intakeVars>>

\* the task's probe ends within its deadline, one way or another
FpProbe(t, outcome) ==
    /\ fpPhase # "stopped" /\ t \in fpTasks /\ t.pc = "probing"
    /\ fpTasks' = (fpTasks \ {t}) \cup {[t EXCEPT !.pc = "ready", !.outcome = outcome]}
    /\ UNCHANGED <<fpScan, fpInbox, fpRecords, fpPhase,
                   reporterVars, dropped, scannerVars, lockVars, intakeVars>>

\* the task emits its ServiceRecord and ends
FpEmit(t) ==
    /\ fpPhase # "stopped" /\ t \in fpTasks /\ t.pc = "ready"
    /\ LET f == Fingerprint(t.port, t.outcome)
       IN  fpRecords' = Append(fpRecords,
                               [scanId |-> t.scanId, port |-> t.port,
                                serviceName |-> f.serviceName, version |-> f.version,
                                outcome |-> t.outcome])
    /\ fpTasks' = fpTasks \ {t}
    /\ UNCHANGED <<fpScan, fpInbox, fpPhase,
                   reporterVars, dropped, scannerVars, lockVars, intakeVars>>

\* global shutdown: no new task is started, the grace period begins
FpShutdown ==
    /\ fpPhase = "running"
    /\ fpPhase' = "draining"
    /\ UNCHANGED <<fpScan, fpInbox, fpTasks, fpRecords,
                   reporterVars, dropped, scannerVars, lockVars, intakeVars>>

\* the grace period is over (or no task is left): the rest is abandoned
FpAbandon ==
    /\ fpPhase = "draining"
    /\ fpPhase' = "stopped"
    /\ fpTasks' = {}
    /\ UNCHANGED <<fpScan, fpInbox, fpRecords,
                   reporterVars, dropped, scannerVars, lockVars, intakeVars>>

\* one PortResult per probed port, in any of the three states
InitFp ==
    /\ fpScan \in [FpKeys -> PortStates]
    /\ fpInbox = {[scanId |-> k[1], port |-> k[2], state |-> fpScan[k]] : k \in FpKeys}
    /\ fpTasks = {}
    /\ fpRecords = <<>>
    /\ fpPhase = "running"
    /\ ReporterIdle
    /\ dropped = [t \in Topics |-> NoDrop]
    /\ LocksOff /\ IntakeOff
    /\ ScannerOff

NextFp ==
    \/ \E r \in fpInbox : FpReceive(r)
    \/ \E t \in fpTasks, outcome \in ProbeOutcomes : FpProbe(t, outcome)
    \/ \E t \in fpTasks : FpEmit(t)
    \/ FpShutdown
    \/ FpAbandon

SpecFp == InitFp /\ [][NextFp]_vars

\* --------------------------------------------------- the intake agent
\* Server.handleScan of the main agent: net/http runs every request on a
\* goroutine of its own; each statement that talks to PostgreSQL or NATS is
\* one step and may fail.
Clients == 1..MaxClients

\* uuid.New() of the k-th call is k; no scan id yet
NoId == 0

NoResponse == [code |-> 0, id |-> NoId, status |-> ""]

NoScanRequest == [target |-> "", ports |-> <<>>]

\* req.Ports when the request names no port
intakeDefaultPorts ==
    <<21, 22, 23, 25, 53, 80, 110, 143, 443, 993, 995, 3306, 3389, 5432, 6379, 8080, 8443>>

\* what a client may send: the method, whether the body decodes, the target
\* and the port list
HttpKinds == {"get", "bad_body", "post"}
HttpTargets == {"", "host"}
HttpPorts == {<<>>, <<22>>}

\* http.Error(w, ..., code) and return
HttpError(c, code) ==
    /\ responses' = [responses EXCEPT ![c] = [code |-> code, id |-> NoId, status |-> ""]]
    /\ inPc' = [inPc EXCEPT ![c] = "done"]

\* s.updateScanStatus(scanID, status): the UPDATE; its error is logged only
updateScanStatus(rows, scanID, status, ok) ==
    IF ok /\ scanID \in DOMAIN rows THEN [rows EXCEPT ![scanID] = status] ELSE rows

\* the request arrives: method check, decode, target check, default ports,
\* uuid.New()
InPost(c, kind, target, list) ==
    /\ inPc[c] = "none"
    /\ IF kind = "get" THEN HttpError(c, 405) /\ UNCHANGED <<inReq, inId, nextId>>
       ELSE IF kind = "bad_body" THEN HttpError(c, 400) /\ UNCHANGED <<inReq, inId, nextId>>
       ELSE IF target = ""
       THEN /\ HttpError(c, 400)
            /\ inReq' = [inReq EXCEPT ![c] = [target |-> target, ports |-> list]]
            /\ UNCHANGED <<inId, nextId>>
       ELSE /\ inReq' = [inReq EXCEPT ![c] =
                            [target |-> target,
                             ports |-> IF Len(list) = 0 THEN intakeDefaultPorts ELSE list]]
            /\ inId' = [inId EXCEPT ![c] = nextId + 1]
            /\ nextId' = nextId + 1
            /\ inPc' = [inPc EXCEPT ![c] = "begin"]
            /\ UNCHANGED responses
    /\ UNCHANGED <<inTx, scans, scanRequests,
                   reporterVars, dropped, scannerVars, lockVars, analyzerVars>>

\* tx, err := s.db.Begin()
InBegin(c, ok) ==
    /\ inPc[c] = "begin"
    /\ IF ok THEN inPc' = [inPc EXCEPT ![c] = "insert"] /\ UNCHANGED responses
       ELSE HttpError(c, 500)
    /\ UNCHANGED <<inReq, inId, inTx, scans, scanRequests, nextId,
                   reporterVars, dropped, scannerVars, lockVars, analyzerVars>>

\* tx.Exec(INSERT INTO scans ... "pending" ...); on an error the deferred
\* tx.Rollback() runs
InInsert(c, ok) ==
    /\ inPc[c] = "insert"
    /\ IF ok
       THEN /\ inTx' = [inTx EXCEPT ![c] = TRUE]
            /\ inPc' = [inPc EXCEPT ![c] = "commit"]
            /\ UNCHANGED responses
       ELSE HttpError(c, 500) /\ UNCHANGED inTx
    /\ UNCHANGED <<inReq, inId, scans, scanRequests, nextId,
                   reporterVars, dropped, scannerVars, lockVars, analyzerVars>>

\* InCommit that goes on after a failed commit
InCommitNoReturn(c, ok) ==
    /\ inPc[c] = "commit"
    /\ inTx' = [inTx EXCEPT ![c] = FALSE]
    /\ scans' = IF ok THEN scans @@ (inId[c] :> "pending") ELSE scans
    /\ inPc' = [inPc EXCEPT ![c] = "marshal"]
    /\ UNCHANGED <<inReq, inId, scanRequests, responses, nextId,
                   reporterVars, dropped, scannerVars, lockVars, analyzerVars>>

\* tx.Commit(): the row becomes visible, or the transaction is rolled back
InCommit(c, ok) ==
    /\ inPc[c] = "commit"
    /\ inTx' = [inTx EXCEPT ![c] = FALSE]
    /\ IF ok
       THEN /\ scans' = scans @@ (inId[c] :> "pending")
            /\ inPc' = [inPc EXCEPT ![c] = "marshal"]
            /\ UNCHANGED responses
       ELSE HttpError(c, 500) /\ UNCHANGED scans
    /\ UNCHANGED <<inReq, inId, scanRequests, nextId,
                   reporterVars, dropped, scannerVars, lockVars, analyzerVars>>

\* data, err := json.Marshal(natsReq); on an error updateScanStatus(failed),
\* whose UPDATE may fail too (upd), and 500
InMarshal(c, ok, upd) ==
    /\ inPc[c] = "marshal"
    /\ IF ok
       THEN inPc' = [inPc EXCEPT ![c] = "publish"] /\ UNCHANGED <<scans, responses>>
       ELSE /\ scans' = updateScanStatus(scans, inId[c], "failed", upd)
            /\ HttpError(c, 500)
    /\ UNCHANGED <<inReq, inId, inTx, scanRequests, nextId,
                   reporterVars, dropped, scannerVars, lockVars, analyzerVars>>

\* s.jsCtx.Publish("scan.request", data); on an error updateScanStatus(failed)
\* and 500
InPublish(c, ok, upd) ==
    /\ inPc[c] = "publish"
    /\ IF ok
       THEN /\ scanRequests' = Append(scanRequests,
                                      [id |-> inId[c], target |-> inReq[c].target,
                                       ports |-> inReq[c].ports])
            /\ inPc' = [inPc EXCEPT ![c] = "respond"]
            /\ UNCHANGED <<scans, responses>>
       ELSE /\ scans' = updateScanStatus(scans, inId[c], "failed", upd)
            /\ HttpError(c, 500)
            /\ UNCHANGED scanRequests
    /\ UNCHANGED <<inReq, inId, inTx, nextId,
                   reporterVars, dropped, scannerVars, lockVars, analyzerVars>>

\* the ScanResponse: status "pending", "Scan queued successfully"
InRespond(c) ==
    /\ inPc[c] = "respond"
    /\ responses' = [responses EXCEPT ![c] =
                        [code |-> 200, id |-> inId[c], status |-> "pending"]]
    /\ inPc' = [inPc EXCEPT ![c] = "done"]
    /\ UNCHANGED <<inReq, inId, inTx, scans, scanRequests, nextId,
                   reporterVars, dropped, scannerVars, lockVars, analyzerVars>>

InitIntake ==
    /\ inPc = [c \in Clients |-> "none"]
    /\ inReq = [c \in Clients |-> NoScanRequest]
    /\ inId = [c \in Clients |-> NoId]
    /\ inTx = [c \in Clients |-> FALSE]
    /\ scans = <<>>
    /\ scanRequests = <<>>
    /\ responses = [c \in Clients |-> NoResponse]
    /\ nextId = 0
    /\ ReporterIdle
    /\ dropped = [t \in Topics |-> NoDrop]
    /\ LocksOff /\ AnalyzerOff
    /\ ScannerOff

NextIntake ==
    \/ \E c \in Clients, kind \in HttpKinds, target \in HttpTargets, list \in HttpPorts :
          InPost(c, kind, target, list)
    \/ \E c \in Clients, ok \in BOOLEAN : InBegin(c, ok)
    \/ \E c \in Clients, ok \in BOOLEAN : InInsert(c, ok)
    \/ \E c \in Clients, ok \in BOOLEAN : InCommit(c, ok)
    \/ \E c \in Clients, ok, upd \in BOOLEAN : InMarshal(c, ok, upd)
    \/ \E c \in Clients, ok, upd \in BOOLEAN : InPublish(c, ok, upd)
    \/ \E c \in Clients : InRespond(c)

SpecIntake == InitIntake /\ [][NextIntake]_vars

\* ================================================================ properties
\* generateReport calls made for the aggregator a on one of the paths
ReportsBy(a, paths) ==
    {i \in DOMAIN reports : reports[i].agg = a /\ reports[i].path \in paths}

\* a path has removed a from the registry and its generateReport call is due
PendingReporters(a) ==
    (IF hPc = "report" /\ hAgg = a THEN {0} ELSE {})
    \cup {b \in DOMAIN aggs : aggs[b].timer = "claimed" /\ aggs[b].cbAgg = a}

\* handleScanResult holds a as its local aggregator and has not returned
HandlerOn(a) == hPc \in {"append", "check", "report"} /\ hAgg = a

Registered(a) == scanAggregators[aggs[a].scanID] = a

\* a is the first aggregator created for its scan id
FirstAgg(a) == \A b \in DOMAIN aggs : aggs[b].scanID = aggs[a].scanID => b >= a

\* C1: no scan id ever gets two generateReport calls.
C1_OneReportPerScan ==
    \A i, j \in DOMAIN reports :
        reports[i].report.scanID = reports[j].report.scanID => i = j

\* C2: of the threshold path and the timer callbacks at most one removes an
\* aggregator and reports it, the other finds it absent and does nothing; once
\* the handler that counted maxResultsWait results and the aggregator's timer
\* callback have both run, exactly one of the two paths has reported it.
C2_OneTriggerWins ==
    \A a \in DOMAIN aggs :
        /\ Cardinality(ReportsBy(a, {"threshold", "timer"}))
              + Cardinality(PendingReporters(a)) <= 1
        /\ (/\ aggs[a].resultCount >= maxResultsWait
            /\ ~HandlerOn(a)
            /\ aggs[a].timer = "done"
            /\ PendingReporters(a) = {})
           => Cardinality(ReportsBy(a, {"threshold", "timer"})) = 1

\* the timer callback of a ran against the threshold path and lost
C2_Witness ==
    \E a \in DOMAIN aggs :
        /\ aggs[a].resultCount >= maxResultsWait /\ ~HandlerOn(a)
        /\ aggs[a].timer = "done"
        /\ ReportsBy(a, {"threshold"}) # {} /\ ReportsBy(a, {"timer"}) = {}

\* C3: an aggregator for which generateReport is due or has run is no longer
\* in the registry.
C3_ReportedIsRemoved ==
    \A a \in DOMAIN aggs :
        (ReportsBy(a, {"threshold", "timer", "shutdown"}) # {} \/ PendingReporters(a) # {})
        => ~Registered(a)

C5_ScenarioC ==
    /\ \A i \in DOMAIN reports :
          reports[i].path = "timer"
          => reports[i].report.total = reports[i].count
    /\ \A a \in DOMAIN aggs :
          (aggs[a].timer = "done" /\ aggs[a].resultCount < maxResultsWait)
          => /\ ~Registered(a)
             /\ \/ ReportsBy(a, {"timer"}) # {}
                \/ \E b \in DOMAIN aggs : aggs[b].timer = "claimed" /\ aggs[b].cbAgg = a

\* five results, then the timer: a timer report with total 5
C5_Witness ==
    \E i \in DOMAIN reports :
        /\ reports[i].path = "timer" /\ reports[i].report.total = 5
        /\ aggs[reports[i].agg].timer = "done"
        /\ sent[reports[i].report.scanID] = 5

\* C6: every result appended to an aggregator is counted in a report: once the
\* aggregator is out of the registry and no generateReport call is due for it,
\* one of its reports has counted all its results.
C6_NoResultLost ==
    \A a \in DOMAIN aggs :
        (~Registered(a) /\ PendingReporters(a) = {})
        => \E i \in ReportsBy(a, {"threshold", "timer", "shutdown"}) :
              reports[i].report.total = Len(aggs[a].results)

IsOpen(r) == r.state = "open"

\* C7: in every report, stats.open = length(openPorts) = number of open results
\* accumulated, and openPorts lists the ports of exactly those results, in order.
C7_OpenPortsMatch ==
    \A i \in DOMAIN reports :
        LET r     == reports[i]
            opens == SelectSeq(r.results, IsOpen)
        IN  /\ r.report.open = Cardinality({k \in DOMAIN r.results : IsOpen(r.results[k])})
            /\ Len(r.report.openPorts) = r.report.open
            /\ Len(opens) = r.report.open
            /\ \A k \in DOMAIN opens : r.report.openPorts[k].port = opens[k].port

\* a report over open and other results, one open port without a service record
C7_Witness ==
    \E i \in DOMAIN reports :
        /\ reports[i].report.open >= 2
        /\ reports[i].report.total > reports[i].report.open
        /\ \E k \in DOMAIN reports[i].report.openPorts :
              reports[i].report.openPorts[k].service = ""

\* the list without the later copies of a result already in it
RECURSIVE Dedup(_)
Dedup(results) ==
    IF results = <<>> THEN <<>>
    ELSE LET n    == Len(results)
             rest == Dedup(SubSeq(results, 1, n - 1))
         IN  IF \E k \in 1..(n - 1) : results[k] = results[n]
             THEN rest ELSE Append(rest, results[n])

\* C8: a result delivered twice is counted once: the report equals the report
\* of the same results with each delivered once.
C8_NoDoubleCount ==
    \A i \in DOMAIN reports :
        reports[i].report =
            BuildReport([scanID |-> reports[i].report.scanID,
                         results |-> Dedup(reports[i].results),
                         services |-> reports[i].services])

\* C9 (scenario A): all K accumulated results closed gives total K, open 0,
\* closed K and no open port.
C9_ScenarioA ==
    \A i \in DOMAIN reports :
        LET r == reports[i]
        IN  (\A k \in DOMAIN r.results : r.results[k].state = "closed")
            => /\ r.report.total = Len(r.results)
               /\ r.report.open = 0
               /\ r.report.closed = Len(r.results)
               /\ r.report.openPorts = <<>>

C9_Witness ==
    \E i \in DOMAIN reports :
        /\ Len(reports[i].results) >= 2
        /\ \A k \in DOMAIN reports[i].results : reports[i].results[k].state = "closed"

\* C10: while the shutdown loop runs, every aggregator in the registry is
\* still to be visited or has been reported by the loop; the loop ends only
\* when none is left to visit.
C10_ShutdownReportsAll ==
    /\ phase = "looping"
       => \A s \in ScanIds :
             scanAggregators[s] # NoAgg
             => \/ s \in todo
                \/ ReportsBy(scanAggregators[s], {"shutdown"}) # {}
    /\ phase = "returned" => todo = {}

\* the loop has reported the aggregators of both scan ids
C10_Witness ==
    /\ phase = "looping" /\ todo = {}
    /\ \A s \in ScanIds :
          /\ scanAggregators[s] # NoAgg
          /\ ReportsBy(scanAggregators[s], {"shutdown"}) # {}

\* the service records of a list that name the port p
RecordsFor(services, p) == {j \in DOMAIN services : services[j].port = p}

LastOf(S) == CHOOSE j \in S : \A k \in S : k <= j

\* C12: every open port entry of a report carries the service name and the
\* version of the last service record accumulated for its port, and an empty
\* name and an empty version when no record names the port.
C12_LastServiceWins ==
    \A i \in DOMAIN reports :
        \A k \in DOMAIN reports[i].report.openPorts :
            LET e    == reports[i].report.openPorts[k]
                recs == RecordsFor(reports[i].services, e.port)
            IN  IF recs = {}
                THEN e.service = "" /\ e.version = ""
                ELSE /\ e.service = reports[i].services[LastOf(recs)].serviceName
                     /\ e.version = reports[i].services[LastOf(recs)].version

\* a report with an open port that two records of different services name, the
\* later one SSH, and an open port that no record names
C12_Witness ==
    \E i \in DOMAIN reports :
        LET sv == reports[i].services
            op == reports[i].report.openPorts
        IN  /\ \E k \in DOMAIN op :
                    /\ Cardinality(RecordsFor(sv, op[k].port)) = 2
                    /\ \E j \in RecordsFor(sv, op[k].port) :
                            sv[j].serviceName # sv[LastOf(RecordsFor(sv, op[k].port))].serviceName
                    /\ op[k].service = "SSH" /\ op[k].version = "8.9"
            /\ \E k \in DOMAIN op : RecordsFor(sv, op[k].port) = {}

InRegistry(a) == a \in DOMAIN aggs /\ Registered(a)

Finalized(a) == a \in DOMAIN aggs /\ ~Registered(a) /\ ReportsBy(a, {"threshold", "timer"}) # {}

\* C11: while the agent runs, a registered aggregator always has a timer that
\* is armed or whose callback is under way, and every registered aggregator is
\* eventually out of the registry with its report generated, unless the agent
\* is shut down first.
C11_EventuallyFinalized ==
    /\ [](\A a \in DOMAIN aggs :
            (Registered(a) /\ phase = "running") => aggs[a].timer \in {"armed", "fired"})
    /\ \A a \in 1..MaxAggs : InRegistry(a) ~> (Finalized(a) \/ phase # "running")

\* the agent still runs, the aggregator that was one result short of the
\* threshold has been finalized by the threshold and a later one by its timer
C11_Witness ==
    /\ phase = "running"
    /\ \E a, b \in DOMAIN aggs :
        /\ Finalized(a) /\ ReportsBy(a, {"threshold"}) # {}
        /\ Finalized(b) /\ ReportsBy(b, {"timer"}) # {}

\* generateReport calls whose saveReport failed
FailedSaves == {i \in DOMAIN reports : ~reports[i].saved}

\* C13: a failed saveReport has no effect but the log: the path that called
\* generateReport does not call it again for that aggregator, the aggregator
\* the threshold or the timer took out of the registry is not put back, and a
\* scan is marked completed only when a report of it was saved.
C13_SaveFailureOnlyLogged ==
    /\ \A i \in FailedSaves :
        /\ \A j \in DOMAIN reports :
              (j # i /\ reports[j].agg = reports[i].agg) => reports[j].path # reports[i].path
        /\ reports[i].path \in {"threshold", "timer"} => ~Registered(reports[i].agg)
    /\ \A s \in ScanIds :
          scanStatus[s] = "completed"
            => \E i \in DOMAIN reports : reports[i].report.scanID = s /\ reports[i].saved

\* the threshold report of "s1" failed to save, the handler has returned, the
\* scan is still pending and later work has gone on
C13_Witness ==
    /\ \E i \in FailedSaves : reports[i].path = "threshold" /\ reports[i].report.scanID = "s1"
    /\ \E i \in FailedSaves : reports[i].path = "timer"
    /\ hPc = "idle"
    /\ scanStatus["s1"] = "pending"
    /\ scanAggregators["s1"] = NoAgg

\* goroutines of scanPorts whose pc is one of pcs
WorkersAt(pcs) ==
    LET ws == {w \in BagToSet(workers) : w.pc \in pcs}
    IN  BagCardinality([w \in ws |-> workers[w]])

\* C15: never more than maxWorkers scanPort calls are outstanding, and the
\* slots taken are exactly those of the goroutines that are in scanPort or
\* past it and have not run their deferred release: a slot is acquired before
\* the probe and released after it.
C15_PoolBound ==
    /\ WorkersAt({"probing"}) <= maxWorkers
    /\ sem = WorkersAt({"probing", "sent"})
    /\ sem <= maxWorkers

\* a list longer than the pool: maxWorkers probes outstanding and a goroutine
\* waiting for a slot
C15_Witness ==
    /\ Len(ports) > maxWorkers
    /\ WorkersAt({"probing"}) = maxWorkers
    /\ WorkersAt({"start"}) >= 1

\* entries of a list of ports that are the port p
Entries(list, p) == Cardinality({i \in DOMAIN list : list[i] = p})

\* publishResult calls made for the port p
Calls(p) == Cardinality({i \in DOMAIN published : published[i].msg.port = p})

PortsIn(list) == {list[i] : i \in DOMAIN list}

\* C16: publishResult is called at most once per entry of the port list, and
\* when the scan has completed exactly once per entry and for no other port,
\* whatever the probes and nc.Publish answered.
C16_OneResultPerEntry ==
    /\ \A i \in DOMAIN published : published[i].msg.port \in PortsIn(ports)
    /\ \A p \in PortsIn(ports) : Calls(p) <= Entries(ports, p)
    /\ completed => \A p \in PortsIn(ports) : Calls(p) = Entries(ports, p)

\* a completed scan of two different ports with a probe that failed, whose
\* result was published, and a publish that failed and was followed by another
C16_Witness ==
    /\ completed
    /\ Cardinality(PortsIn(ports)) >= 2
    /\ \E i \in DOMAIN published : ~published[i].msg.is_open
    /\ \E i, j \in DOMAIN published : i < j /\ ~published[i].ok /\ published[j].ok

\* C18: when "Completed port scan" is logged every goroutine of the loop has
\* returned, one result per port was sent, the channel is closed and empty
\* and every result sent was handed to publishResult.
C18_CompletedAfterAll ==
    completed =>
        /\ spawned = Len(ports) /\ workers = EmptyBag /\ wg = 0
        /\ Len(sendLog) = Len(ports)
        /\ closed /\ resultsCh = <<>>
        /\ Len(published) = Len(sendLog)

\* a scan of more ports than the pool has slots has completed
C18_Witness == completed /\ Len(ports) > maxWorkers /\ Len(published) = Len(ports)

\* the state the claim gives a dial outcome
ExpectedState(outcome) ==
    IF outcome = "connected" THEN "open"
    ELSE IF outcome = "timeout" THEN "filtered" ELSE "closed"

\* C19: every published result carries the state of its probe's outcome: open
\* for a connection, filtered for a timeout, closed for any other error.
C19_StateCarried ==
    \A i \in DOMAIN published :
        DecodeResult(published[i].msg).state
            = ExpectedState(DialTimeout(request.target, published[i].msg.port))

\* C20: results are published in the order they were sent on the channel, and
\* the publishing loop takes a result as soon as one is in the channel,
\* whether or not probes are still outstanding.
C20_Streamed ==
    /\ Len(published) <= Len(sendLog)
    /\ \A i \in DOMAIN published : published[i].msg = Encode(sendLog[i])
    /\ (qPc = "range" /\ resultsCh # <<>>) => ENABLED PublishResult(TRUE)

\* the result of the second port of the list has been published while the
\* first port has not been probed yet
C20_Witness ==
    /\ Len(ports) = 2 /\ ports[1] # ports[2]
    /\ Len(published) = 1 /\ published[1].msg.port = ports[2]
    /\ \E w \in BagToSet(workers) : w.port = ports[1] /\ w.pc \in {"start", "probing"}

\* the list handleScanRequest scans for the request
RequestedList == IF Len(request.ports) = 0 THEN topPorts ELSE request.ports

\* C17: the default list has 15 ports; scanPorts is called with the default
\* list when the request names no port and with the request's list otherwise,
\* and a completed scan has published one result per entry of that list and
\* none for any other port.
C17_DefaultPorts ==
    /\ Len(topPorts) = 15 /\ Cardinality(PortsIn(topPorts)) = 15
    /\ ~pending => ports = RequestedList
    /\ completed =>
        /\ Len(published) = Len(RequestedList)
        /\ \A i \in DOMAIN published : published[i].msg.port \in PortsIn(RequestedList)
        /\ \A p \in PortsIn(RequestedList) : Calls(p) = Entries(RequestedList, p)

\* the scan of a request that names no port has completed with 15 results
C17_Witness ==
    /\ completed /\ request.ports = <<>>
    /\ Len(published) = 15
    /\ {published[i].msg.port : i \in DOMAIN published} = PortsIn(topPorts)

\* C14: a step that drops a payload that does not decode changes nothing
\* else: no aggregator is created or changed, no timer armed, no probe
\* started, nothing published, and every handler is where it was, ready for
\* the next message.
C14_MalformedDropped ==
    [][dropped' # dropped => UNCHANGED <<reporterVars, scannerVars, lockVars, analyzerVars, intakeVars>>]_vars

\* each subscription has dropped a payload and has handled a well-formed
\* message after it: the 19th result of "s1" was appended, a service record
\* was appended, the scan request was scanned to completion
C14_Witness ==
    /\ dropped["scan.result"] = Len(NearResults)
    /\ aggs[1].resultCount > Len(NearResults)
    /\ dropped["service.detected"] = 0
    /\ \E a \in DOMAIN aggs : aggs[a].services # <<>>
    /\ dropped["scan.request"] = 0
    /\ completed /\ Len(published) = 1

\* C23: a timer callback takes out of the registry, and reports, only the
\* aggregator its timer was armed for.
C23_TimerOwnAggregate ==
    \A a \in DOMAIN aggs : aggs[a].timer = "claimed" => aggs[a].cbAgg = a

\* C24: after the shutdown loop has reported an aggregator no later
\* generateReport call is made for the same scan id.
C24_NoReportAfterShutdown ==
    \A i, j \in DOMAIN reports :
        (i < j /\ reports[i].path = "shutdown")
            => reports[j].report.scanID # reports[i].report.scanID

\* C27: a scan's status changes only to "completed" and only in the
\* generateReport call that has saved the scan's report; a call whose
\* marshalling or saving failed leaves every status as it was.
C27_CompletedOnlyAfterSave ==
    [][LET n == Len(reports')
       IN /\ \A s \in ScanIds :
                scanStatus'[s] # scanStatus[s]
                    => /\ scanStatus'[s] = "completed"
                       /\ n = Len(reports) + 1
                       /\ reports'[n].saved
                       /\ reports'[n].report.scanID = s
          /\ (n = Len(reports) + 1 /\ ~reports'[n].saved)
                => scanStatus' = scanStatus]_vars

\* one scan's report was saved and the scan is completed, another scan's
\* report was not saved and that scan is not completed
C27_Witness ==
    \E i, j \in DOMAIN reports :
        /\ reports[i].saved
        /\ scanStatus[reports[i].report.scanID] = "completed"
        /\ ~reports[j].saved
        /\ scanStatus[reports[j].report.scanID] # "completed"

\* the timer state of every aggregator
Timers(heap) == [a \in DOMAIN heap |-> heap[a].timer]

\* C28: no step of handleServiceDetected changes the registry, creates an
\* aggregator, touches a timer or produces a report; when the scan id of
\* the record has no registered aggregator the step changes no aggregator
\* at all and the handler returns; an aggregator is created only by the
\* lookup step of handleScanResult.
C28_ServiceNeverCreates ==
    [][/\ sPc' # sPc
           => /\ scanAggregators' = scanAggregators
              /\ Len(aggs') = Len(aggs)
              /\ Timers(aggs') = Timers(aggs)
              /\ reports' = reports
              /\ (sPc = "lookup" /\ scanAggregators[sMsg.scanID] = NoAgg)
                     => (aggs' = aggs /\ sPc' = "idle")
       /\ Len(aggs') # Len(aggs) => (hPc = "lookup" /\ hPc' = "append")]_vars

\* every service.detected message was handled after s1's aggregator had
\* been reported and removed: each found no aggregator registered for its
\* scan id and none was accumulated
C28_Witness ==
    /\ svcSent = MaxServices /\ sPc = "idle"
    /\ reports # <<>>
    /\ \A s \in ScanIds : scanAggregators[s] = NoAgg
    /\ \A a \in DOMAIN aggs : aggs[a].scanID = "s1" /\ aggs[a].services = <<>>

\* the aggregators of scan s, with their ids
AggsOf(s, heap) == {<<a, heap[a]>> : a \in {b \in DOMAIN heap : heap[b].scanID = s}}

\* the generateReport calls made for scan s
ReportsOf(s, log) == {i \in DOMAIN log : log[i].report.scanID = s}

\* the step is one of the handlers working on a message of scan s, or the
\* timer of one of s's aggregators
ActsOn(s) ==
    \/ hPc' # hPc /\ hMsg.scanID = s
    \/ sPc' # sPc /\ sMsg.scanID = s
    \/ \E a \in DOMAIN aggs : aggs[a].scanID = s /\ aggs'[a].timer # aggs[a].timer

\* C29: a step changes the registry entry, the aggregators, the reports or
\* the status of scan s only when it works on a message or a timer of s;
\* every aggregator and every report holds results and services of its own
\* scan id only.
C29_ScansIndependent ==
    /\ [][\A s \in ScanIds :
            (\/ scanAggregators'[s] # scanAggregators[s]
             \/ AggsOf(s, aggs') # AggsOf(s, aggs)
             \/ ReportsOf(s, reports') # ReportsOf(s, reports)
             \/ scanStatus'[s] # scanStatus[s])
                => ActsOn(s)]_vars
    /\ [](/\ \A a \in DOMAIN aggs :
               /\ \A k \in DOMAIN aggs[a].results :
                     aggs[a].results[k].scanID = aggs[a].scanID
               /\ \A k \in DOMAIN aggs[a].services :
                     aggs[a].services[k].scanID = aggs[a].scanID
          /\ \A i \in DOMAIN reports :
               /\ \A k \in DOMAIN reports[i].results :
                     reports[i].results[k].scanID = reports[i].report.scanID
               /\ \A k \in DOMAIN reports[i].services :
                     reports[i].services[k].scanID = reports[i].report.scanID)

\* both scans were reported, s1 with a service record, while records of the
\* other scan were arriving
C29_Witness ==
    \E i, j \in DOMAIN reports :
        /\ reports[i].report.scanID = "s1" /\ reports[i].services # <<>>
        /\ reports[j].report.scanID = "s2" /\ reports[j].results # <<>>
        /\ svcSent = MaxServices

\* C30: every call of scanPorts returns, with all goroutines gone, all slots
\* free, the channel closed and drained and one publishResult call per
\* port; a goroutine that has its result never finds the channel full; the
\* channel is closed once, after the last goroutine has sent and returned.
C30_ScanPortsTerminates ==
    /\ (qPc = "spawn") ~> (/\ completed /\ qPc = "idle"
                           /\ workers = EmptyBag /\ sem = 0 /\ wg = 0
                           /\ closed /\ closer = "done" /\ resultsCh = <<>>
                           /\ Len(published) = Len(ports))
    /\ [](\A w \in BagToSet(workers) :
             w.pc = "probing" => Len(resultsCh) < Len(ports))
    /\ [][/\ closed => closed'
          /\ (closed' /\ ~closed)
                => (workers = EmptyBag /\ Len(sendLog) = Len(ports))]_vars

\* a scan of more ports than the pool has slots is over
C30_Witness ==
    /\ completed
    /\ Len(ports) > maxWorkers
    /\ Len(published) = Len(ports)

\* C26: every aggregator is keyed by the id of a request whose results the
\* scanner published, and every result accumulated in it has one of the
\* three port states.
C26_KeyedByRequest ==
    \A a \in DOMAIN aggs :
        /\ aggs[a].scanID \in {published[i].msg.id : i \in DOMAIN published}
        /\ \A k \in DOMAIN aggs[a].results :
              aggs[a].results[k].state \in {"open", "closed", "filtered"}

\* goroutines inside a function of the reporter: blocked in a Lock call or
\* between a Lock and its Unlock
LkBusy == {g \in Goroutines : lkPc[g] \notin {"idle", "none", "armed", "stopped",
                                             "done", "run", "exited"}}

\* C25: (1) a goroutine that is going for ra.mutex, or holds it for reading,
\* holds no aggregator mutex, and a mutex is held only by a goroutine that
\* is inside a function of the reporter; (2) while the process runs and
\* some goroutine is inside such a function, one of them can take a step;
\* (3) every goroutine leaves the function it is in, all its mutexes
\* released, or the process ends.
C25_NoDeadlock ==
    /\ [](\A g \in Goroutines :
             /\ lkPc[g] \in {"lock1", "lock2", "rlock", "inR"}
                 => \A a \in LkAggs : lkAgg[a] # g
             /\ g \notin LkBusy
                 => /\ lkReg # g /\ g \notin lkReaders
                    /\ \A a \in LkAggs : lkAgg[a] # g)
    /\ []((LkRunning /\ LkBusy # {}) => ENABLED LkProgress)
    /\ \A g \in Goroutines : (g \in LkBusy) ~> (g \notin LkBusy \/ ~LkRunning)

\* the shutdown loop holds ra.mutex and is blocked on the mutex of an
\* aggregator that the result handler holds, while a timer callback is
\* blocked on ra.mutex
C25_Witness ==
    /\ lkReg = Mg /\ lkPc[Mg] = "lockG"
    /\ lkAgg[lkPtr[Mg]] = Hg
    /\ \E a \in LkAggs : lkPc[Tg(a)] = "lock1"

PublishedIds == {scanRequests[i].id : i \in DOMAIN scanRequests}

\* C31: every published scan.request names a scan id whose row is committed,
\* and the row's status is pending in the step that publishes; a client
\* whose request gave no target (an empty one, a body that does not decode,
\* a method other than POST) is refused with 400 or 405 and gets no scan
\* id; rows and messages exist only for requests with a target.
C31_PublishAfterCommit ==
    /\ [](PublishedIds \subseteq DOMAIN scans)
    /\ [][Len(scanRequests') > Len(scanRequests)
            => LET m == scanRequests'[Len(scanRequests')]
               IN  /\ Len(scanRequests') = Len(scanRequests) + 1
                   /\ m.id \in DOMAIN scans /\ scans[m.id] = "pending"]_vars
    /\ [](/\ \A c \in Clients :
                (inPc[c] # "none" /\ inReq[c].target = "")
                    => /\ inPc[c] = "done" /\ inId[c] = NoId
                       /\ responses[c].code \in {400, 405}
          /\ LET withTarget == Cardinality({d \in Clients : inReq[d].target # ""})
             IN  /\ Cardinality(DOMAIN scans) + Cardinality({d \in Clients : inTx[d]})
                       <= withTarget
                 /\ Len(scanRequests) <= withTarget)

\* one client's request was published after its row was committed, the
\* other's had no target and was answered 400
C31_Witness ==
    \E c, d \in Clients :
        /\ inPc[c] = "done" /\ responses[c].code = 200
        /\ inId[c] \in PublishedIds /\ scans[inId[c]] = "pending"
        /\ inPc[d] = "done" /\ inReq[d].target = "" /\ responses[d].code = 400
        /\ Len(scanRequests) = 1 /\ DOMAIN scans = {inId[c]}

\* C32: a client whose row was committed and whose handler is over without
\* a published request finds the row failed and got an error; a client
\* answered 200 has its request published.
C32_NeverLeftPending ==
    \A c \in Clients :
        /\ (inPc[c] = "done" /\ inId[c] \in DOMAIN scans /\ inId[c] \notin PublishedIds)
              => (scans[inId[c]] = "failed" /\ responses[c].code = 500)
        /\ responses[c].code = 200 => inId[c] \in PublishedIds
====
